---- MODULE Spec2Model ----
(***************************************************************************)
(* Failed-search discovery and extraction pipeline of the amino-acid       *)
(* tracker backend: failed-search logging, triage, candidate discovery,    *)
(* offline-first full-text retrieval, fact fusion, and the batch jobs that *)
(* drive a failed_searches row through its status machine.                 *)
(*                                                                         *)
(* Text is modelled by TLA+ strings (TLC evaluates Len, Head, Tail, SubSeq *)
(* and \o on them), so normalisation and key derivation are computed       *)
(* character by character as the Python code does.  Confidence values are  *)
(* kept in hundredths (0.7 is 70), as are trigram similarities.           *)
(***************************************************************************)
EXTENDS Integers, Sequences, FiniteSets, TLC

VARIABLES
    failed_searches,   \* table failed_searches: row id = index
    paper_candidates,  \* table paper_candidates: row id = index
    sources,           \* table sources: row id = index
    foods,             \* table foods: row id = index
    food_amino_acids,  \* table food_amino_acids: row id = index
    cache,             \* papers cache directory: key -> [meta, xml]
    session,           \* per worker: the batch job it runs and its ORM session
    clock,             \* database now()
    logged,            \* history: accepted log_failed_search calls per normalized text
    last,              \* history: what the last finished operation did
    fetched,           \* history: the document each direct fetch last returned
    last_fetch         \* history: the last direct fetch

vars == <<failed_searches, paper_candidates, sources, foods, food_amino_acids,
          cache, session, clock, logged, last, fetched, last_fetch>>

None == "<None>"

(***************************************************************************)
(* Bounds of the model.                                                    *)
(***************************************************************************)
MaxLogs == 2        \* failed searches logged in one behaviour
MaxLimit == 2       \* largest batch limit a job is started with
MaxTopN == 2        \* largest top_n_per_query of a discovery run
MaxWorkers == 2     \* workers of the concurrent specification
MaxSources == 3     \* provenance sources stored in one behaviour of the source calls

(***************************************************************************)
(* Python str helpers.                                                     *)
(***************************************************************************)
UpperLetters == "ABCDEFGHIJKLMNOPQRSTUVWXYZ"
LowerLetters == "abcdefghijklmnopqrstuvwxyz"
Digits == "0123456789"

\* s[a-1:b] of Python: positions a..b, cut to the string
Slice(s, a, b) ==
    SubSeq(s, IF a < 1 THEN 1 ELSE a, IF b > Len(s) THEN Len(s) ELSE b)

Char(s, i) == Slice(s, i, i)

Chars(s) == {Char(s, i) : i \in 1..Len(s)}

IsSpace(c) == c \in {" ", "\t", "\n"}

LowerChar(c) ==
    IF \E i \in 1..Len(UpperLetters) : Char(UpperLetters, i) = c
    THEN Char(LowerLetters, CHOOSE i \in 1..Len(UpperLetters) : Char(UpperLetters, i) = c)
    ELSE c

UpperChar(c) ==
    IF \E i \in 1..Len(LowerLetters) : Char(LowerLetters, i) = c
    THEN Char(UpperLetters, CHOOSE i \in 1..Len(LowerLetters) : Char(LowerLetters, i) = c)
    ELSE c

RECURSIVE Lower(_)
Lower(s) == IF s = "" THEN "" ELSE LowerChar(Head(s)) \o Lower(Tail(s))

RECURSIVE Upper(_)
Upper(s) == IF s = "" THEN "" ELSE UpperChar(Head(s)) \o Upper(Tail(s))

RECURSIVE LStrip(_)
LStrip(s) == IF s # "" /\ IsSpace(Head(s)) THEN LStrip(Tail(s)) ELSE s

RECURSIVE RStrip(_)
RStrip(s) ==
    IF s # "" /\ IsSpace(Char(s, Len(s))) THEN RStrip(SubSeq(s, 1, Len(s) - 1)) ELSE s

Strip(s) == RStrip(LStrip(s))

\* re.sub(r"\s+", " ", s): every maximal run of whitespace becomes one space
RECURSIVE CollapseSpace(_)
CollapseSpace(s) ==
    IF s = "" THEN ""
    ELSE IF IsSpace(Head(s)) THEN " " \o CollapseSpace(LStrip(s))
    ELSE Head(s) \o CollapseSpace(Tail(s))

\* Python `needle in hay`
Contains(hay, needle) ==
    \E i \in 1..(Len(hay) - Len(needle) + 1) : SubSeq(hay, i, i + Len(needle) - 1) = needle

\* Python truthiness of an Optional[str]
Truthy(s) == s # None /\ s # ""

\* Python `a or b` on Optional[str]
OrElse(a, b) == IF Truthy(a) THEN a ELSE b

\* "sep".join(seq)
RECURSIVE Join(_, _)
Join(sep, seq) ==
    IF seq = <<>> THEN ""
    ELSE IF Len(seq) = 1 THEN seq[1]
    ELSE seq[1] \o sep \o Join(sep, Tail(seq))

StartsWith(s, prefix) == Slice(s, 1, Len(prefix)) = prefix

Max(a, b) == IF a >= b THEN a ELSE b
Min(a, b) == IF a <= b THEN a ELSE b
\* the row a SELECT without ORDER BY returns first: the lowest id
First(S) == CHOOSE i \in S : \A j \in S : i <= j

\* a function held as an explicit table of its values
Tabulated(f) == f @@ <<>>

(***************************************************************************)
(* The inputs of the model.                                                *)
(***************************************************************************)
\* what users type into GET /foods
QueryInputs == {"oat  bran", "Oat  BRAN ", "oat brann", "bread", "hi", " x"}

\* the foods the catalogue starts with, as a USDA bulk ingest leaves them
SeedFoods ==
    << [fdc_id |-> 1001, name |-> "Oat bran", data_type |-> "foundation_food",
        acids |-> <<[amino_acid |-> "lysine", mg |-> 500]>>],
       [fdc_id |-> 1002, name |-> "Rye", data_type |-> "branded_food",
        acids |-> <<[amino_acid |-> "lysine", mg |-> 300]>>] >>

\* a dataset that lists a second food under the name of the first: food names
\* are not unique, only (external_source, external_food_id) is
TwinFoods ==
    SeedFoods \o << [fdc_id |-> 1003, name |-> "Oat bran", data_type |-> "sr_legacy_food",
                     acids |-> <<[amino_acid |-> "lysine", mg |-> 480]>>] >>

\* a row of a CSV file handed to etl/ingest_csv
CsvRow(name, external_food_id, amino_acid, amount, confidence) ==
    [name |-> name, external_source |-> "USDA", external_food_id |-> external_food_id,
     amino_acid |-> amino_acid, amount |-> amount, confidence |-> confidence,
     source_type |-> "dataset", source_name |-> "Lab sheet", source_url |-> "",
     citation_text |-> "", version |-> ""]

\* a lab sheet with a value for an amino acid that is not one of the nine
CsvAlanine == CsvRow("Oat bran", "1001", "alanine", <<900>>, <<>>)

\* hits the bibliographic providers return
HitDoi ==
    [provider |-> "crossref", title |-> "Amino acid composition of oat bran (mg/100g)",
     doi |-> "10.1234/x1", url |-> "https://doi.org/10.1234/x1",
     published_year |-> <<2020>>, abstract |-> None]
HitPmc ==
    [provider |-> "pubmed", title |-> "Oat bran PMC77: a systematic review",
     doi |-> None, url |-> "https://pubmed.ncbi.nlm.nih.gov/123/",
     published_year |-> <<>>, abstract |-> "protein content of cereals"]
HitBare ==
    [provider |-> "crossref", title |-> "Oat notes", doi |-> None, url |-> None,
     published_year |-> <<2019>>, abstract |-> None]

HitPool == {HitDoi, HitPmc, HitBare}

\* hits handed to rank_hits directly: per subject and provider, one whose title
\* reports measured values, one that differs from it in the title only and is
\* a review, and the measured one with the review tag added
MeasuredTitle(subject) == subject \o ": amino acid composition (mg/100g)"
ReviewTitle(subject) == subject \o ": a systematic review"
TaggedTitle(subject) == MeasuredTitle(subject) \o ", a systematic review"
RankSubjects == {"Oat bran", "Rye"}
RankProviders == {"crossref", "pubmed"}
RankHit(provider, title) == [HitDoi EXCEPT !.provider = provider, !.title = title]
RankPool ==
    {RankHit(p, t) : p \in RankProviders,
                     t \in UNION {{MeasuredTitle(s), ReviewTitle(s), TaggedTitle(s)} :
                                      s \in RankSubjects}}
RankQueries == {"lysine", "systematic review of rye"}

\* (title, url, doi) handed to fetch_fulltext_offline_first: those of the
\* candidates the hits become, and the first of them without its DOI
FetchInputs ==
    {<<HitDoi.title, HitDoi.url, HitDoi.doi>>, <<HitDoi.title, HitDoi.url, None>>,
     <<HitPmc.title, HitPmc.url, None>>, <<HitBare.title, "", None>>}

\* a provider call: it raises (HTTP error status or network exception), or
\* returns a list of hits
ProviderFailed == [ok |-> FALSE, hits |-> <<>>]
ProviderHits(hits) == [ok |-> TRUE, hits |-> hits]
CrossrefReplies ==
    {ProviderFailed, ProviderHits(<<>>), ProviderHits(<<HitDoi>>),
     ProviderHits(<<HitDoi, HitDoi>>), ProviderHits(<<HitBare, HitBare>>)}
PipelineCrossrefReplies == CrossrefReplies \ {ProviderFailed}
PubmedReplies == {ProviderFailed, ProviderHits(<<>>), ProviderHits(<<HitPmc>>)}

\* what the three tries of one GET meet
Attempt(exc, status) == [exc |-> exc, status |-> status]
Script(a) == <<a, a, a>>
Answers(status) == Script(Attempt(FALSE, status))
AnswersAfterRetry ==
    <<Attempt(FALSE, 503), Attempt(TRUE, 0), Attempt(FALSE, 200)>>
Unreachable == Script(Attempt(TRUE, 0))
Overloaded == Script(Attempt(FALSE, 503))

IdconvReply(attempts, json_ok, records) ==
    [attempts |-> attempts, json_ok |-> json_ok, records |-> records]
IdconvFound == <<[doi |-> "10.1234/X1", pmid |-> "123", pmcid |-> "pmc77"]>>
IdconvReplies ==
    {IdconvReply(Answers(200), TRUE, IdconvFound),
     IdconvReply(AnswersAfterRetry, TRUE, IdconvFound),
     IdconvReply(Answers(200), TRUE, <<>>),
     IdconvReply(Answers(200), FALSE, <<>>),
     IdconvReply(Answers(404), TRUE, <<>>),
     IdconvReply(Unreachable, TRUE, <<>>)}

XmlBody(text_len, error_tag, cr, rows) ==
    [text_len |-> text_len, error_tag |-> error_tag, cr |-> cr, rows |-> rows]
\* the rows of a table: the text of each cell of each row
LysineRows ==
    <<[cells |-> <<"Lysine", "24 mg/g">>],
      [cells |-> <<"Leu", "2 g/100g">>],
      [cells |-> <<"Valine">>]>>
XmlTables == XmlBody(5000, FALSE, FALSE, LysineRows)
XmlTablesCrLf == XmlBody(5000, FALSE, TRUE, LysineRows)
XmlProse == XmlBody(4000, FALSE, FALSE, <<>>)
XmlError == XmlBody(300, TRUE, FALSE, <<>>)
XmlShort == XmlBody(150, FALSE, FALSE, <<>>)
XmlBodies == {XmlTables, XmlTablesCrLf, XmlProse, XmlError, XmlShort}

EfetchReply(attempts, xml) == [attempts |-> attempts, xml |-> xml]
EfetchReplies ==
    {EfetchReply(Answers(200), XmlTables),
     EfetchReply(AnswersAfterRetry, XmlTables),
     EfetchReply(Answers(200), XmlProse),
     EfetchReply(Answers(200), XmlError),
     EfetchReply(Answers(200), XmlShort),
     EfetchReply(Answers(404), XmlProse),
     EfetchReply(Overloaded, XmlProse),
     EfetchReply(Unreachable, XmlProse)}

Networks(idconvs, efetches) == {[idconv |-> a, efetch |-> b] : a \in idconvs, b \in efetches}

\* the replies met by the batch jobs
PipelineNetworks ==
    Networks({IdconvReply(Answers(200), TRUE, IdconvFound),
              IdconvReply(Answers(404), TRUE, <<>>),
              IdconvReply(Unreachable, TRUE, <<>>)},
             {EfetchReply(Answers(200), XmlTables),
              EfetchReply(Answers(200), XmlProse),
              EfetchReply(Answers(200), XmlShort),
              EfetchReply(Unreachable, XmlProse)})

(***************************************************************************)
(* failed_searches.py                                                      *)
(***************************************************************************)
\* a normalize_query that keeps runs of whitespace
normalize_query_uncollapsed(q) == Lower(Strip(IF q = None THEN "" ELSE q))

normalize_query(q) == CollapseSpace(Lower(Strip(IF q = None THEN "" ELSE q)))

\* the texts of the model, raw and as stored
QueryTexts == QueryInputs \cup {Strip(q) : q \in QueryInputs}

\* normalize_query over the texts of the model, evaluated once
table_normalize_query ==
    Tabulated([q \in QueryTexts |-> normalize_query(q)])
cached_normalize_query(q) ==
    IF q \in DOMAIN table_normalize_query THEN table_normalize_query[q]
    ELSE normalize_query(q)

\* ids of the rows whose normalized_query is norm
RowsWithNorm(tbl, norm) == {i \in 1..Len(tbl) : tbl[i].normalized_query = norm}

\* a log_failed_search that would reopen the row it finds
log_failed_search_reopening(tbl, query, t) ==
    LET norm == cached_normalize_query(query)
    IN  IF Len(norm) < 2 THEN tbl
        ELSE IF RowsWithNorm(tbl, norm) # {}
        THEN [tbl EXCEPT ![First(RowsWithNorm(tbl, norm))].seen_count = @ + 1,
                         ![First(RowsWithNorm(tbl, norm))].last_seen_at = t,
                         ![First(RowsWithNorm(tbl, norm))].status = "new"]
        ELSE Append(tbl, [query |-> Strip(query), normalized_query |-> norm,
                          seen_count |-> 1, last_seen_at |-> t, status |-> "new",
                          nlp_label |-> None, nlp_score |-> <<>>, note |-> None])

\* a log_failed_search that would insert without looking the text up
log_failed_search_inserting(tbl, query, t) ==
    LET norm == cached_normalize_query(query)
    IN  IF Len(norm) < 2 THEN tbl
        ELSE Append(tbl, [query |-> Strip(query), normalized_query |-> norm,
                          seen_count |-> 1, last_seen_at |-> t, status |-> "new",
                          nlp_label |-> None, nlp_score |-> <<>>, note |-> None])

\* a log_failed_search without the length test
log_failed_search_unchecked(tbl, query, t) ==
    LET norm == cached_normalize_query(query)
    IN  IF RowsWithNorm(tbl, norm) # {}
        THEN [tbl EXCEPT ![First(RowsWithNorm(tbl, norm))].seen_count = @ + 1,
                         ![First(RowsWithNorm(tbl, norm))].last_seen_at = t]
        ELSE Append(tbl, [query |-> Strip(IF query = None THEN "" ELSE query),
                          normalized_query |-> norm,
                          seen_count |-> 1, last_seen_at |-> t, status |-> "new",
                          nlp_label |-> None, nlp_score |-> <<>>, note |-> None])

\* log_failed_search(db, query): the table after the call
log_failed_search(tbl, query, t) ==
    LET norm == cached_normalize_query(query)
    IN  IF Len(norm) < 2 THEN tbl
        ELSE IF RowsWithNorm(tbl, norm) # {}
        THEN LET i == CHOOSE j \in RowsWithNorm(tbl, norm) :
                          \A k \in RowsWithNorm(tbl, norm) : j <= k
             IN  [tbl EXCEPT ![i].seen_count = @ + 1, ![i].last_seen_at = t]
        ELSE Append(tbl, [query |-> Strip(query), normalized_query |-> norm,
                          seen_count |-> 1, last_seen_at |-> t, status |-> "new",
                          nlp_label |-> None, nlp_score |-> <<>>, note |-> None])

\* log_failed_search(db, query): the id of the row returned, 0 for None
LoggedRow(tbl, query) ==
    IF Len(cached_normalize_query(query)) < 2 THEN 0
    ELSE IF RowsWithNorm(tbl, cached_normalize_query(query)) # {}
    THEN First(RowsWithNorm(tbl, cached_normalize_query(query)))
    ELSE Len(tbl) + 1

(***************************************************************************)
(* nlp_food_filter.py                                                      *)
(***************************************************************************)
JUNK_WORDS == {"help", "hi", "hello", "test", "asdf", "lol", "pls", "please"}

\* DB_TRGM_THRESHOLD = 0.30, in hundredths
DB_TRGM_THRESHOLD == 30

IsLowerAlnum(c) == c \in Chars(LowerLetters) \cup Chars(Digits)

\* the character class [a-z0-9\s\-'] kept by _NONWORD_RE
IsWordChar(c) == IsLowerAlnum(c) \/ IsSpace(c) \/ c \in {"-", "'"}

RECURSIVE DropNonword(_)
DropNonword(s) == IF s # "" /\ ~IsWordChar(Head(s)) THEN DropNonword(Tail(s)) ELSE s

\* _NONWORD_RE.sub(" ", t): every maximal run of other characters becomes one space
RECURSIVE SubNonword(_)
SubNonword(s) ==
    IF s = "" THEN ""
    ELSE IF ~IsWordChar(Head(s)) THEN " " \o SubNonword(DropNonword(s))
    ELSE Head(s) \o SubNonword(Tail(s))

_normalize(s) ==
    Strip(CollapseSpace(SubNonword(Lower(Strip(IF s = None THEN "" ELSE s)))))

\* _normalize over the texts of the model, evaluated once
table__normalize ==
    Tabulated([q \in QueryTexts |-> _normalize(q)])
cached__normalize(q) ==
    IF q \in DOMAIN table__normalize THEN table__normalize[q] ELSE _normalize(q)

\* str.isdigit()
IsDigitStr(s) == s # "" /\ \A i \in 1..Len(s) : Char(s, i) \in Chars(Digits)

\* _URL_RE.search: https?://|www\. ignoring case
UrlSearch(s) ==
    \/ Contains(Lower(s), "http://")
    \/ Contains(Lower(s), "https://")
    \/ Contains(Lower(s), "www.")

\* the maximal runs of characters satisfying the class, in order
RECURSIVE TakeRun(_, _)
TakeRun(s, alnumOnly) ==
    IF s = "" THEN ""
    ELSE IF (IF alnumOnly THEN IsLowerAlnum(Head(s)) ELSE ~IsSpace(Head(s)))
    THEN Head(s) \o TakeRun(Tail(s), alnumOnly)
    ELSE ""

RECURSIVE Runs(_, _)
Runs(s, alnumOnly) ==
    IF s = "" THEN <<>>
    ELSE LET r == TakeRun(s, alnumOnly)
         IN  IF r = "" THEN Runs(Tail(s), alnumOnly)
             ELSE <<r>> \o Runs(SubSeq(s, Len(r) + 1, Len(s)), alnumOnly)

\* str.split()
Split(s) == Runs(s, FALSE)

Range(f) == {f[i] : i \in DOMAIN f}

\* pg_trgm: the trigrams of the lowercased text, each alphanumeric word padded
\* with two blanks in front and one behind
WordTrigrams(w) == LET p == "  " \o w \o " " IN {SubSeq(p, i, i + 2) : i \in 1..(Len(p) - 2)}

Trigrams(s) == UNION {WordTrigrams(w) : w \in Range(Runs(Lower(s), TRUE))}

\* similarity(a, b) in hundredths, rounded down
Similarity(a, b) ==
    LET ta == Trigrams(a)
        tb == Trigrams(b)
    IN  IF ta \cup tb = {} THEN 0
        ELSE (100 * Cardinality(ta \cap tb)) \div Cardinality(ta \cup tb)

\* pg_trgm.similarity_threshold, the default of the % operator, in hundredths
PG_TRGM_LIMIT == 30

\* similarity(lower(name), q) over the food names and texts of the model,
\* evaluated once
FoodNames == {SeedFoods[i].name : i \in 1..Len(SeedFoods)}
table_similarity ==
    Tabulated([x \in FoodNames \X {table__normalize[q] : q \in QueryTexts} |->
        Similarity(Lower(x[1]), x[2])])
cached_similarity(name, q) ==
    IF <<name, q>> \in DOMAIN table_similarity THEN table_similarity[<<name, q>>]
    ELSE Similarity(Lower(name), q)

\* _best_food_similarity_db(norm): the (sim, name) pairs the query may return;
\* rows of equal similarity are returned in no particular order
_best_food_similarity_db(catalog, norm) ==
    LET hits == {i \in 1..Len(catalog) :
                    cached_similarity(catalog[i].name, norm) >= PG_TRGM_LIMIT}
    IN  IF hits = {} THEN {[sim |-> 0, name |-> None]}
        ELSE {[sim |-> cached_similarity(catalog[i].name, norm), name |-> catalog[i].name] :
                i \in {j \in hits : \A k \in hits :
                         cached_similarity(catalog[j].name, norm)
                           >= cached_similarity(catalog[k].name, norm)}}

PyStr(x) == IF x = None THEN "None" ELSE x

\* the early returns without the one for digits
HardRejectsDigitsPass(norm) ==
    IF norm = "" THEN <<[label |-> "junk", score |-> 0, reason |-> "empty"]>>
    ELSE IF Len(norm) < 3 THEN <<[label |-> "junk", score |-> 0, reason |-> "too_short"]>>
    ELSE IF UrlSearch(norm) THEN <<[label |-> "junk", score |-> 0, reason |-> "url"]>>
    ELSE IF Len(Split(norm)) <= 2 /\ \A t \in Range(Split(norm)) : t \in JUNK_WORDS
    THEN <<[label |-> "junk", score |-> 5, reason |-> "junk_word_only"]>>
    ELSE <<>>

\* classify_query's returns ahead of the similarity query: <<result>>, or <<>>
\* when the query is made
HardRejects(norm) ==
    IF norm = "" THEN <<[label |-> "junk", score |-> 0, reason |-> "empty"]>>
    ELSE IF Len(norm) < 3 THEN <<[label |-> "junk", score |-> 0, reason |-> "too_short"]>>
    ELSE IF IsDigitStr(norm) THEN <<[label |-> "junk", score |-> 0, reason |-> "digits_only"]>>
    ELSE IF UrlSearch(norm) THEN <<[label |-> "junk", score |-> 0, reason |-> "url"]>>
    ELSE IF Len(Split(norm)) <= 2 /\ \A t \in Range(Split(norm)) : t \in JUNK_WORDS
    THEN <<[label |-> "junk", score |-> 5, reason |-> "junk_word_only"]>>
    ELSE <<>>

\* the returns behind it, given the row best = (sim, name) the query returned
TrigramResult(best) ==
    IF best.sim >= DB_TRGM_THRESHOLD
    THEN [label |-> "food", score |-> best.sim,
          reason |-> "db_trgm>=0.3 match=" \o PyStr(best.name)]
    ELSE [label |-> "junk", score |-> best.sim,
          reason |-> "db_trgm<0.3 best_match=" \o PyStr(best.name)]

\* classify_query(q) given the row best = (sim, name) of the similarity query
ClassifyFrom(early, best) == IF early # <<>> THEN early[1] ELSE TrigramResult(best)
classify_query(q, best) == ClassifyFrom(HardRejects(cached__normalize(q)), best)

(***************************************************************************)
(* Optional numbers: <<>> is None, <<n>> is n.                             *)
(***************************************************************************)
NoNum == <<>>
Some(n) == <<n>>

(***************************************************************************)
(* papers/ranker.py.  A hit is [provider, title, doi, url, published_year, *)
(* abstract].  The score kept is score_hit's raw additive score in tenths: *)
(* the logistic squashing 1/(1+e^(-raw/2.5)) is strictly increasing, so    *)
(* sorting by raw is sorting by score.                                     *)
(***************************************************************************)
MEASUREMENT_KEYWORDS ==
    <<"amino acid", "amino acids", "amino-acid", "composition", "profile", "content",
      "quantification", "determination", "analysis", "hplc", "uhplc", "chromatography",
      "mass spectrometry", "lc-ms", "gc-ms", "mg/100g", "g/100g", "protein quality",
      "digestibility", "iaao">>

\* no keyword counts as low value
LOW_VALUE_KEYWORDS_NONE == <<>>

LOW_VALUE_KEYWORDS ==
    <<"review", "systematic review", "meta-analysis", "scoping review", "editorial",
      "commentary", "case report", "protocol", "guideline">>

OFF_DOMAIN_KEYWORDS ==
    <<"novel", "poetry", "literature", "philosophy", "politics", "chickpeas, and">>

_normalize_text(s) == IF ~Truthy(s) THEN "" ELSE Join(" ", Split(Strip(Lower(s))))

\* set(_WORD_RE.findall(s))
_tokens(s) == Range(Runs(s, TRUE))

\* how many keywords of the list satisfy the test
CountKw(list, Test(_)) == Cardinality({i \in 1..Len(list) : Test(list[i])})

score_hit(hit, query) ==
    LET title == _normalize_text(hit.title)
        abstract == _normalize_text(hit.abstract)
        q == _normalize_text(query)
        combined == Strip(title \o " " \o abstract)
        InCombined(kw) == Contains(combined, kw)
        InEither(kw) == Contains(title, kw) \/ Contains(abstract, kw)
        overlap == Cardinality(_tokens(q) \cap _tokens(combined))
    IN  12 * CountKw(MEASUREMENT_KEYWORDS, InCombined)
        + (IF Contains(combined, "mg/100g") \/ Contains(combined, "g/100g") THEN 25 ELSE 0)
        - 18 * CountKw(LOW_VALUE_KEYWORDS, InEither)
        - 30 * CountKw(OFF_DOMAIN_KEYWORDS, InEither)
        + (IF _tokens(q) # {} THEN 9 * Min(3, overlap) ELSE 0)
        + (IF hit.provider = "pubmed" THEN 10 ELSE IF hit.provider = "crossref" THEN 2 ELSE 0)

\* list.sort(key=score, reverse=True) is stable: insert behind every element
\* whose score is not smaller
\* a sort that is not stable: insert in front of the elements of equal score
RECURSIVE InsertByScoreUnstable(_, _)
InsertByScoreUnstable(sorted, x) ==
    IF sorted = <<>> THEN <<x>>
    ELSE IF sorted[1].score > x.score
         THEN <<sorted[1]>> \o InsertByScoreUnstable(Tail(sorted), x)
    ELSE <<x>> \o sorted

RECURSIVE InsertByScore(_, _)
InsertByScore(sorted, x) ==
    IF sorted = <<>> THEN <<x>>
    ELSE IF sorted[1].score >= x.score THEN <<sorted[1]>> \o InsertByScore(Tail(sorted), x)
    ELSE <<x>> \o sorted

RECURSIVE SortByScore(_)
SortByScore(seq) ==
    IF seq = <<>> THEN <<>>
    ELSE InsertByScore(SortByScore(SubSeq(seq, 1, Len(seq) - 1)), seq[Len(seq)])

\* score_hit over the hits and texts of the model, evaluated once
table_score_hit ==
    Tabulated([x \in (HitPool \X QueryTexts) \cup (RankPool \X RankQueries) |->
                  score_hit(x[1], x[2])])
cached_score_hit(hit, query) ==
    IF <<hit, query>> \in DOMAIN table_score_hit THEN table_score_hit[<<hit, query>>]
    ELSE score_hit(hit, query)

rank_hits(hits, query, top_n) ==
    LET scored == [i \in 1..Len(hits) |->
                      [hit |-> hits[i], score |-> cached_score_hit(hits[i], query)]]
    IN  SubSeq(SortByScore(scored), 1, Min(top_n, Len(hits)))

(***************************************************************************)
(* papers/pipeline.py: candidate persistence.                              *)
(***************************************************************************)
FAILED_READY_STATUS == "queued"
FAILED_DONE_STATUS == "candidates_done"

\* _candidate_exists_for_failed_search: a SELECT over the rows the session can
\* see in the database
_candidate_exists_for_failed_search(visible, failed_search_id, provider, doi, url, title, year) ==
    IF Truthy(doi)
    THEN \E i \in 1..Len(visible) :
            /\ visible[i].failed_search_id = failed_search_id
            /\ visible[i].provider = provider
            /\ visible[i].doi = doi
    ELSE IF Truthy(url)
    THEN \E i \in 1..Len(visible) :
            /\ visible[i].failed_search_id = failed_search_id
            /\ visible[i].provider = provider
            /\ visible[i].url = url
    ELSE \E i \in 1..Len(visible) :
            /\ visible[i].failed_search_id = failed_search_id
            /\ visible[i].provider = provider
            /\ visible[i].title = title
            /\ visible[i].published_year = year

\* SessionLocal is made with autoflush=False and the loop never flushes: its
\* SELECTs see the committed rows, not the candidates db.add()ed so far
VisibleCandidates(committed, added) == committed

\* the loop of enqueue_candidates_for_failed_search over the ranked hits:
\* the candidates it db.add()s, in order
RECURSIVE AddCandidates(_, _, _, _)
AddCandidates(committed, added, fs_id, scored) ==
    IF scored = <<>> THEN added
    ELSE LET s == scored[1]
             title0 == Strip(IF s.hit.title = None THEN "" ELSE s.hit.title)
             title == IF Len(title0) > 500 THEN SubSeq(title0, 1, 500) ELSE title0
             doi == IF Truthy(s.hit.doi) /\ Strip(s.hit.doi) # "" THEN Strip(s.hit.doi) ELSE None
             url == IF Truthy(s.hit.url) /\ Strip(s.hit.url) # "" THEN Strip(s.hit.url) ELSE None
             year == s.hit.published_year
             row == [failed_search_id |-> fs_id, provider |-> s.hit.provider, title |-> title,
                     doi |-> doi, url |-> url, published_year |-> year, score |-> s.score]
         IN  IF title0 = "" THEN AddCandidates(committed, added, fs_id, Tail(scored))
             ELSE IF _candidate_exists_for_failed_search(
                        VisibleCandidates(committed, added), fs_id, s.hit.provider,
                        doi, url, title, year)
             THEN AddCandidates(committed, added, fs_id, Tail(scored))
             ELSE AddCandidates(committed, Append(added, row), fs_id, Tail(scored))

\* enqueue_candidates_for_failed_search(db, fs, top_n) given the providers' hits
enqueue_candidates_for_failed_search(committed, added, fs_id, query, hits, top_n) ==
    AddCandidates(committed, added, fs_id, rank_hits(hits, query, top_n))

\* the table's unique constraint (failed_search_id, provider, doi); rows with a
\* NULL doi never conflict
UniqueCandidateViolated(tbl) ==
    \E i, j \in 1..Len(tbl) :
        /\ i < j
        /\ tbl[i].doi # None
        /\ tbl[i].failed_search_id = tbl[j].failed_search_id
        /\ tbl[i].provider = tbl[j].provider
        /\ tbl[i].doi = tbl[j].doi

(***************************************************************************)
(* papers/extractor.py: identifiers and the cache key.                     *)
(***************************************************************************)
HTTP_MAX_RETRIES == 3

\* efetch bodies shorter than this are treated as failures
MIN_XML_LEN == 200

DigitChars == Chars(Digits)

\* \w of the re module
IsReWord(c) == c \in Chars(LowerLetters) \cup Chars(UpperLetters) \cup Chars(Digits) \cup {"_"}

\* \b between positions k and k+1 of s
BoundaryAt(s, k) ==
    (k >= 1 /\ IsReWord(Char(s, k))) # (k < Len(s) /\ IsReWord(Char(s, k + 1)))

\* length of the run of characters of the class starting at position i
RECURSIVE RunLen(_, _, _)
RunLen(s, i, class) ==
    IF i <= Len(s) /\ Char(s, i) \in class THEN 1 + RunLen(s, i + 1, class) ELSE 0

\* [-._;()/:A-Z0-9] under re.IGNORECASE
DoiChars ==
    Chars("-._;()/:") \cup Chars(LowerLetters) \cup Chars(UpperLetters) \cup Chars(Digits)

\* end of the match of _DOI_RE starting at i, or 0
DoiMatchEnd(s, i) ==
    IF ~(BoundaryAt(s, i - 1) /\ Slice(s, i, i + 2) = "10.") THEN 0
    ELSE LET d == RunLen(s, i + 3, DigitChars)
             j == i + 3 + d + 1
         IN  IF ~(d >= 4 /\ d <= 9 /\ Char(s, i + 3 + d) = "/") THEN 0
             ELSE LET r == RunLen(s, j, DoiChars)
                      ends == {e \in 1..r : BoundaryAt(s, j + e - 1)}
                  IN  IF ends = {} THEN 0
                      ELSE j + (CHOOSE e \in ends : \A f \in ends : f <= e) - 1

FirstIndex(S) == CHOOSE i \in S : \A j \in S : i <= j

_extract_doi(text) ==
    IF ~Truthy(text) THEN None
    ELSE LET starts == {i \in 1..Len(text) : DoiMatchEnd(text, i) > 0}
         IN  IF starts = {} THEN None
             ELSE Lower(Strip(Slice(text, FirstIndex(starts), DoiMatchEnd(text, FirstIndex(starts)))))

\* end of the match of _PMCID_RE (\bPMC\d+\b, ignoring case) starting at i, or 0
PmcidMatchEnd(s, i) ==
    LET d == RunLen(s, i + 3, DigitChars)
    IN  IF /\ BoundaryAt(s, i - 1)
           /\ Upper(Slice(s, i, i + 2)) = "PMC"
           /\ d >= 1
           /\ BoundaryAt(s, i + 2 + d)
        THEN i + 2 + d ELSE 0

_extract_pmcid(text) ==
    IF ~Truthy(text) THEN None
    ELSE LET starts == {i \in 1..Len(text) : PmcidMatchEnd(text, i) > 0}
         IN  IF starts = {} THEN None
             ELSE Upper(Slice(text, FirstIndex(starts), PmcidMatchEnd(text, FirstIndex(starts))))

\* start of group 1 of _PMID_RE when it matches at i, or 0
PmidGroupStart(s, i) ==
    LET AtHere(p) == Lower(Slice(s, i, i + Len(p) - 1)) = p
        after == IF AtHere("pubmed.ncbi.nlm.nih.gov/") THEN i + Len("pubmed.ncbi.nlm.nih.gov/")
                 ELSE IF AtHere("/pubmed/") THEN i + Len("/pubmed/")
                 ELSE 0
    IN  IF after > 0 /\ RunLen(s, after, DigitChars) >= 1 THEN after ELSE 0

_extract_pmid_from_url(url) ==
    IF ~Truthy(url) THEN None
    ELSE LET starts == {i \in 1..Len(url) : PmidGroupStart(url, i) > 0}
         IN  IF starts = {} THEN None
             ELSE LET g == PmidGroupStart(url, FirstIndex(starts))
                  IN  Slice(url, g, g + RunLen(url, g, DigitChars) - 1)

\* the non-empty parts, in order
RECURSIVE NonEmpty(_)
NonEmpty(parts) ==
    IF parts = <<>> THEN <<>>
    ELSE IF parts[1] # "" THEN <<parts[1]>> \o NonEmpty(Tail(parts))
    ELSE NonEmpty(Tail(parts))

\* _stable_key: the key is the SHA-256 of this join; the hash is taken to be
\* injective, so the joined text stands for the key
_stable_key(parts) == Join("||", NonEmpty(parts))

Prefix(s, n) == Slice(s, 1, n)

\* the identifiers and the cache key fetch_fulltext_offline_first derives
DerivedIds(title, url, doi0) ==
    LET doi == OrElse(doi0, OrElse(_extract_doi(url), _extract_doi(title)))
        pmcid == OrElse(_extract_pmcid(url), _extract_pmcid(title))
        pmid == _extract_pmid_from_url(url)
    IN  [doi |-> IF Truthy(doi) THEN doi ELSE None,
         pmcid |-> IF Truthy(pmcid) THEN pmcid ELSE None,
         pmid |-> pmid,
         key |-> _stable_key(<<Prefix(title, 120), Prefix(url, 200),
                               OrElse(doi, ""), OrElse(pmcid, ""), OrElse(pmid, "")>>)]

\* DerivedIds over the fetch inputs of the model, evaluated once
table_DerivedIds ==
    Tabulated([x \in FetchInputs |-> DerivedIds(x[1], x[2], x[3])])
cached_DerivedIds(title, url, doi0) ==
    IF <<title, url, doi0>> \in DOMAIN table_DerivedIds
    THEN table_DerivedIds[<<title, url, doi0>>]
    ELSE DerivedIds(title, url, doi0)

(***************************************************************************)
(* papers/extractor.py: HTTP, cache and the fetch itself.  A reply of an   *)
(* external service is [attempts, ...]: what each of the HTTP_MAX_RETRIES  *)
(* requests would meet (an exception or a status) and the body of a 200.   *)
(* An XML body is [text_len, error_tag, cr, rows]: its stripped length,    *)
(* whether it holds "<error", whether it holds a carriage return, and the  *)
(* rows of its tables.                                                     *)
(***************************************************************************)
TRANSIENT_STATUS == {429, 500, 502, 503, 504}

IDCONV_URL == "https://pmc.ncbi.nlm.nih.gov/tools/idconv/api/v1/articles/"
EFETCH_URL == "https://eutils.ncbi.nlm.nih.gov/entrez/eutils/efetch.fcgi"

\* HTTP_BACKOFF_SECS, in tenths of a second
HTTP_BACKOFF_TENTHS == 15

\* the retry loop, answering a transient status as a final response
RECURSIVE HttpTryExceptionsOnly(_, _)
HttpTryExceptionsOnly(attempts, n) ==
    IF n > HTTP_MAX_RETRIES
    THEN [raised |-> TRUE, status |-> 0, tries |-> HTTP_MAX_RETRIES, slept |-> <<>>]
    ELSE IF attempts[n].exc
    THEN [HttpTryExceptionsOnly(attempts, n + 1) EXCEPT
              !.slept = <<HTTP_BACKOFF_TENTHS * n>> \o @]
    ELSE [raised |-> FALSE, status |-> attempts[n].status, tries |-> n, slept |-> <<>>]

\* the retry loop from try n on: slept lists the time.sleep calls in order
RECURSIVE HttpTry(_, _)
HttpTry(attempts, n) ==
    IF n > HTTP_MAX_RETRIES
    THEN [raised |-> TRUE, status |-> 0, tries |-> HTTP_MAX_RETRIES, slept |-> <<>>]
    ELSE IF attempts[n].exc \/ attempts[n].status \in TRANSIENT_STATUS
    THEN [HttpTry(attempts, n + 1) EXCEPT !.slept = <<HTTP_BACKOFF_TENTHS * n>> \o @]
    ELSE [raised |-> FALSE, status |-> attempts[n].status, tries |-> n, slept |-> <<>>]

\* _http_get: the response, or the RuntimeError after the last try
_http_get(attempts) == HttpTry(attempts, 1)

GetFailed(url) == "GET failed after " \o ToString(HTTP_MAX_RETRIES) \o " tries: " \o url

\* resolve_ids_via_idconv once _http_get has answered with r
IdconvOutcome(doi, pmid, pmcid, reply, r) ==
    LET sent == [requests |-> r.tries, raised |-> FALSE, error |-> "", doi |-> doi,
                 pmid |-> pmid, pmcid |-> pmcid, warning |-> None]
    IN  IF r.raised THEN [sent EXCEPT !.raised = TRUE, !.error = GetFailed(IDCONV_URL)]
        ELSE IF r.status # 200
        THEN [sent EXCEPT !.warning = "idconv http " \o ToString(r.status)]
        ELSE IF ~reply.json_ok
        THEN [sent EXCEPT !.raised = TRUE,
                          !.error = "Expecting value: line 1 column 1 (char 0)"]
        ELSE IF reply.records = <<>> THEN sent
        ELSE [sent EXCEPT
                !.doi = IF Truthy(OrElse(reply.records[1].doi, doi))
                        THEN Lower(OrElse(reply.records[1].doi, doi)) ELSE None,
                !.pmid = IF Truthy(reply.records[1].pmid) THEN reply.records[1].pmid
                         ELSE pmid,
                !.pmcid = IF Truthy(OrElse(reply.records[1].pmcid, pmcid))
                          THEN Upper(OrElse(reply.records[1].pmcid, pmcid))
                          ELSE OrElse(reply.records[1].pmcid, pmcid)]

\* a resolution that asks the service whatever is known
resolve_ids_via_idconv_always(doi, pmid, pmcid, reply) ==
    IdconvOutcome(doi, pmid, pmcid, reply, _http_get(reply.attempts))

\* resolve_ids_via_idconv: [requests, raised, error, doi, pmid, pmcid, warning]
resolve_ids_via_idconv(doi, pmid, pmcid, reply) ==
    IF Truthy(pmcid) \/ (~Truthy(doi) /\ ~Truthy(pmid))
    THEN [requests |-> 0, raised |-> FALSE, error |-> "", doi |-> doi,
          pmid |-> pmid, pmcid |-> pmcid, warning |-> None]
    ELSE IdconvOutcome(doi, pmid, pmcid, reply, _http_get(reply.attempts))

\* fetch_pmc_xml once _http_get has answered with r
EfetchOutcome(reply, r) ==
    LET out == [requests |-> r.tries, raised |-> FALSE, error |-> "", xml |-> <<>>]
    IN  IF r.raised THEN [out EXCEPT !.raised = TRUE, !.error = GetFailed(EFETCH_URL)]
        ELSE IF r.status # 200 THEN out
        ELSE IF reply.xml.error_tag THEN out
        ELSE IF reply.xml.text_len < MIN_XML_LEN THEN out
        ELSE [out EXCEPT !.xml = <<reply.xml>>]

\* fetch_pmc_xml: [requests, raised, error, xml], xml = <<>> for None
fetch_pmc_xml(pmcid, reply) == EfetchOutcome(reply, _http_get(reply.attempts))

NoFiles == [meta |-> <<>>, xml |-> <<>>]

CacheFiles(c, key) == IF key \in DOMAIN c THEN c[key] ELSE NoFiles

\* Path.read_text opens the file in text mode with universal newlines: every
\* "\r\n" and lone "\r" of the stored text is read back as "\n"
read_text(xml) == [xml EXCEPT !.cr = FALSE]

\* Path.write_text on the deployment's Linux hosts stores the text unchanged
write_text(xml) == xml

\* _read_cache: <<>> for None, <<doc>> for a document
_read_cache(c, key) ==
    LET f == CacheFiles(c, key)
    IN  IF f.meta = <<>> THEN <<>>
        ELSE IF ~f.meta[1].valid THEN <<>>
        ELSE <<[title |-> f.meta[1].title, source_url |-> f.meta[1].source_url,
                doi |-> f.meta[1].doi, pmid |-> f.meta[1].pmid, pmcid |-> f.meta[1].pmcid,
                pmc_xml |-> IF f.xml = <<>> THEN <<>> ELSE <<read_text(f.xml[1])>>,
                provider |-> f.meta[1].provider,
                warnings |-> f.meta[1].warnings]>>

\* _write_cache, first write: the metadata file is rewritten
write_meta_file(c, key, doc) ==
    LET meta == [valid |-> TRUE, title |-> doc.title, source_url |-> doc.source_url,
                 doi |-> doc.doi, pmid |-> doc.pmid, pmcid |-> doc.pmcid,
                 provider |-> doc.provider, warnings |-> doc.warnings]
    IN  [k \in DOMAIN c \cup {key} |->
            IF k = key THEN [meta |-> <<meta>>, xml |-> CacheFiles(c, key).xml] ELSE c[k]]

\* _write_cache, second write: the XML file, only when the document has full text
write_xml_file(c, key, doc) ==
    IF doc.pmc_xml = <<>> THEN c
    ELSE [k \in DOMAIN c \cup {key} |->
            IF k = key THEN [meta |-> CacheFiles(c, key).meta,
                             xml |-> <<write_text(doc.pmc_xml[1])>>]
            ELSE c[k]]

\* _write_cache: the two writes, one after the other
_write_cache(c, key, doc) == write_xml_file(write_meta_file(c, key, doc), key, doc)

\* step 1 of the fetch, given what resolve_ids_via_idconv did: the document's
\* identifiers and warnings so far
ResolveStep(ids, res) ==
    [doi |-> IF res.raised THEN ids.doi ELSE OrElse(res.doi, ids.doi),
     pmid |-> IF res.raised THEN ids.pmid ELSE OrElse(res.pmid, ids.pmid),
     pmcid |-> IF res.raised THEN ids.pmcid ELSE OrElse(res.pmcid, ids.pmcid),
     warnings |-> IF res.raised THEN <<"idconv failed: " \o res.error>>
                  ELSE IF Truthy(res.warning) THEN <<res.warning>>
                  ELSE <<>>,
     requests |-> res.requests,
     calls |-> IF res.requests > 0 THEN <<"idconv">> ELSE <<>>]

\* a step 2 that would append no warning
FullTextWarningDropped(pmcid, got) == <<>>

\* the warning step 2 appends, if any, given what fetch_pmc_xml did
FullTextWarning(pmcid, got) ==
    IF ~Truthy(pmcid) THEN <<"no PMCID (cannot fetch PMC full text)">>
    ELSE IF got.raised THEN <<"pmc_xml fetch failed: " \o got.error>>
    ELSE IF got.xml = <<>>
    THEN <<"pmc_xml not available (efetch returned empty or error)">>
    ELSE <<>>

\* step 2 of the fetch and the cache write
FullTextStep(c, key, title, url, st, got) ==
    LET doc == [title |-> title, source_url |-> url, doi |-> st.doi, pmid |-> st.pmid,
                pmcid |-> st.pmcid,
                pmc_xml |-> IF Truthy(st.pmcid) /\ ~got.raised THEN got.xml ELSE <<>>,
                provider |-> "idconv+pmc",
                warnings |-> st.warnings \o FullTextWarning(st.pmcid, got)]
    IN  [doc |-> doc, cache |-> _write_cache(c, key, doc), hit |-> FALSE,
         idconv_requests |-> st.requests,
         efetch_requests |-> IF Truthy(st.pmcid) THEN got.requests ELSE 0,
         calls |-> <<"read_cache">> \o st.calls
                       \o (IF Truthy(st.pmcid) THEN <<"efetch">> ELSE <<>>)
                       \o <<"write_cache">>]

\* the fetch on a cache miss
FetchOnline(c, key, title, url, st, net) ==
    FullTextStep(c, key, title, url, st, fetch_pmc_xml(st.pmcid, net.efetch))

\* the fetch once the cache has been read
FetchAfterCache(c, title, url, ids, cached, net) ==
    IF cached # <<>>
    THEN [doc |-> cached[1], cache |-> c, hit |-> TRUE,
          idconv_requests |-> 0, efetch_requests |-> 0, calls |-> <<"read_cache">>]
    ELSE FetchOnline(c, ids.key, title, url,
                     ResolveStep(ids, resolve_ids_via_idconv(ids.doi, ids.pmid, ids.pmcid,
                                                             net.idconv)),
                     net)

FetchWithIds(c, title, url, ids, net) ==
    FetchAfterCache(c, title, url, ids, _read_cache(c, ids.key), net)

\* fetch_fulltext_offline_first: [doc, cache, hit, idconv_requests, efetch_requests,
\* calls], calls being the cache and service calls made, in their order
fetch_fulltext_offline_first(c, title, url, doi0, net) ==
    FetchWithIds(c, title, url, cached_DerivedIds(title, url, doi0), net)

(***************************************************************************)
(* papers/table_extractor.py.  A table row is [cells]: the text of each of *)
(* its cells.                                                              *)
(***************************************************************************)
AMINO_ALIASES ==
    << [canonical |-> "lysine", aliases |-> {"lysine", "lys"}],
       [canonical |-> "leucine", aliases |-> {"leucine", "leu"}],
       [canonical |-> "isoleucine", aliases |-> {"isoleucine", "ile"}],
       [canonical |-> "valine", aliases |-> {"valine", "val"}],
       [canonical |-> "threonine", aliases |-> {"threonine", "thr"}],
       [canonical |-> "tryptophan", aliases |-> {"tryptophan", "trp"}],
       [canonical |-> "methionine", aliases |-> {"methionine", "met"}],
       [canonical |-> "phenylalanine", aliases |-> {"phenylalanine", "phe"}],
       [canonical |-> "histidine", aliases |-> {"histidine", "his"}] >>

RECURSIVE RemoveSpaces(_)
RemoveSpaces(s) ==
    IF s = "" THEN ""
    ELSE IF Head(s) = " " THEN RemoveSpaces(Tail(s))
    ELSE Head(s) \o RemoveSpaces(Tail(s))

\* a conversion that takes g/kg for g/100g
normalize_to_mg_per_100g_kg_as_100g(amount, units) ==
    LET u == RemoveSpaces(Lower(units))
    IN  IF u \in {"mg/100g", "mgper100g"} THEN <<amount>>
        ELSE IF u \in {"g/100g", "gper100g", "g/kg", "gperkg"} THEN <<amount * 1000>>
        ELSE IF u \in {"mg/g", "mgperg"} THEN <<amount * 100>>
        ELSE <<>>

\* normalize_to_mg_per_100g: <<>> for None
normalize_to_mg_per_100g(amount, units) ==
    LET u == RemoveSpaces(Lower(units))
    IN  IF u \in {"mg/100g", "mgper100g"} THEN <<amount>>
        ELSE IF u \in {"g/100g", "gper100g"} THEN <<amount * 1000>>
        ELSE IF u \in {"mg/g", "mgperg"} THEN <<amount * 100>>
        ELSE IF u \in {"g/kg", "gperkg"} THEN <<amount * 100>>
        ELSE <<>>

\* [\d\.] and \s of the value pattern
AmountChars == DigitChars \cup {"."}
SpaceChars == {" ", "\t", "\n"}

\* the first of the alternatives that s continues with at position i, or ""
FirstAlternative(s, i, alternatives) ==
    LET fits == {k \in 1..Len(alternatives) :
                    Slice(s, i, i + Len(alternatives[k]) - 1) = alternatives[k]}
    IN  IF fits = {} THEN "" ELSE alternatives[FirstIndex(fits)]

\* the number ahead of the unit, the numerator and the position behind it,
\* and the denominator of a match of ([\d\.]+)\s*(mg|g)\s*/\s*(100g|g|kg)
\* that starts at i
MatchDenominator(s, number, numerator, k) ==
    LET slash == k + RunLen(s, k, SpaceChars)
        d == slash + 1 + RunLen(s, slash + 1, SpaceChars)
        denominator == FirstAlternative(s, d, <<"100g", "g", "kg">>)
    IN  IF Char(s, slash) = "/" /\ denominator # ""
        THEN <<[number |-> number, unit |-> numerator \o "/" \o denominator]>>
        ELSE <<>>

MatchNumerator(s, number, j) ==
    LET numerator == FirstAlternative(s, j, <<"mg", "g">>)
    IN  IF numerator = "" THEN <<>>
        ELSE MatchDenominator(s, number, numerator, j + Len(numerator))

ValueMatchAt(s, i) ==
    LET n == RunLen(s, i, AmountChars)
    IN  IF n = 0 THEN <<>>
        ELSE MatchNumerator(s, Slice(s, i, i + n - 1), i + n + RunLen(s, i + n, SpaceChars))

\* re.search of the value pattern: the leftmost match, <<>> for none
ValueSearch(s) ==
    LET starts == {i \in 1..Len(s) : ValueMatchAt(s, i) # <<>>}
    IN  IF starts = {} THEN <<>> ELSE ValueMatchAt(s, FirstIndex(starts))

\* int() of a run of digits
RECURSIVE WholeNumber(_)
WholeNumber(digits) ==
    IF digits = "" THEN 0
    ELSE 10 * WholeNumber(SubSeq(digits, 1, Len(digits) - 1))
         + (CHOOSE v \in 0..9 : Char(Digits, v + 1) = Char(digits, Len(digits)))

\* float() of the matched number, in thousandths: digits with at most one
\* decimal point and at most three digits behind it, as the tables of the
\* model hold them
Thousandths(number) ==
    LET dots == {k \in 1..Len(number) : Char(number, k) = "."}
        dot == IF dots = {} THEN Len(number) + 1 ELSE FirstIndex(dots)
        fraction == Slice(number, dot + 1, Len(number))
    IN  1000 * WholeNumber(Slice(number, 1, dot - 1))
            + WholeNumber(fraction \o Slice("000", 1, 3 - Len(fraction)))

\* row_text: the cell texts joined by blanks, in lower case
RowText(row) == Lower(Join(" ", row.cells))

\* the acid is kept when one of its aliases is a substring of the row text
AliasInRow(row_text, aliases) == \E alias \in aliases : Contains(row_text, alias)

\* the facts one row contributes, canonical names in dictionary order from k on
RECURSIVE RowFacts(_, _, _)
RowFacts(row_text, found, k) ==
    IF k > Len(AMINO_ALIASES) THEN <<>>
    ELSE LET a == AMINO_ALIASES[k]
             norm == IF found = <<>> THEN <<>>
                     ELSE normalize_to_mg_per_100g(Thousandths(found[1].number),
                                                   found[1].unit)
         IN  (IF AliasInRow(row_text, a.aliases) /\ norm # <<>>
              THEN <<[amino_acid |-> a.canonical,
                      amount_mg_per_100g |-> norm[1] \div 1000]>>
              ELSE <<>>) \o RowFacts(row_text, found, k + 1)

RECURSIVE TableFacts(_)
TableFacts(rows) ==
    IF rows = <<>> THEN <<>>
    ELSE (IF Len(rows[1].cells) < 2 THEN <<>>
          ELSE RowFacts(RowText(rows[1]), ValueSearch(RowText(rows[1])), 1))
         \o TableFacts(Tail(rows))

extract_amino_tables_from_pmc_xml(xml) == TableFacts(xml.rows)

\* extract_amino_tables_from_pmc_xml over the bodies of the model, evaluated once
table_extract_amino_tables ==
    Tabulated([xml \in XmlBodies |-> extract_amino_tables_from_pmc_xml(xml)])
cached_extract_amino_tables(xml) ==
    IF xml \in DOMAIN table_extract_amino_tables THEN table_extract_amino_tables[xml]
    ELSE extract_amino_tables_from_pmc_xml(xml)

(***************************************************************************)
(* crud.py: provenance sources and facts.                                  *)
(***************************************************************************)
PublicationsWithUrl(tbl, url) ==
    {i \in 1..Len(tbl) : tbl[i].source_type = "publication" /\ tbl[i].source_url = url}

\* a lookup that would overwrite the populated fields of the row it finds
get_or_create_publication_source_overwriting(tbl, source_name, source_url, citation_text, version) ==
    LET found == PublicationsWithUrl(tbl, source_url)
    IN  IF found # {}
        THEN LET i == CHOOSE j \in found : TRUE
             IN  [sources |-> [tbl EXCEPT
                     ![i].source_name = IF Truthy(source_name) THEN source_name ELSE @,
                     ![i].citation_text = IF Truthy(citation_text) THEN citation_text ELSE @,
                     ![i].version = IF Truthy(version) THEN version ELSE @],
                  id |-> i]
        ELSE [sources |-> Append(tbl,
                  [source_type |-> "publication",
                   source_name |-> Prefix(OrElse(source_name, "Unknown publication"), 200),
                   source_url |-> Prefix(OrElse(source_url, ""), 500),
                   citation_text |-> Prefix(OrElse(citation_text, ""), 500),
                   version |-> version]),
              id |-> Len(tbl) + 1]

\* get_or_create_publication_source: [sources, id]; the lookup is
\* scalar_one_or_none, so the caller must not pass a URL stored twice
get_or_create_publication_source(tbl, source_name, source_url, citation_text, version) ==
    LET found == PublicationsWithUrl(tbl, source_url)
    IN  IF found # {}
        THEN LET i == CHOOSE j \in found : TRUE
                 e == tbl[i]
                 filled == [e EXCEPT
                     !.source_name = IF Truthy(source_name) /\ ~Truthy(e.source_name)
                                     THEN source_name ELSE @,
                     !.citation_text = IF Truthy(citation_text) /\ ~Truthy(e.citation_text)
                                       THEN citation_text ELSE @,
                     !.version = IF Truthy(version) /\ ~Truthy(e.version) THEN version ELSE @]
             IN  [sources |-> [tbl EXCEPT ![i] = filled], id |-> i]
        ELSE [sources |-> Append(tbl,
                  [source_type |-> "publication",
                   source_name |-> Prefix(OrElse(source_name, "Unknown publication"), 200),
                   source_url |-> Prefix(OrElse(source_url, ""), 500),
                   citation_text |-> Prefix(OrElse(citation_text, ""), 500),
                   version |-> version]),
              id |-> Len(tbl) + 1]

FactsWithKey(tbl, food_id, acid) ==
    {i \in 1..Len(tbl) : tbl[i].food_id = food_id /\ tbl[i].amino_acid = acid}

\* the key upsert_food_amino_acid looks the fact up by
AcidKey(amino_acid) == Lower(Strip(amino_acid))

\* the confidence an existing fact gets from a new write
\* an upsert that would take the newer confidence
ReplacedConfidence(existing, new) == new

MergedConfidence(existing, new) == Max(existing, new)

\* crud.upsert_food_amino_acid: the table after the call (inserts are flushed)
upsert_food_amino_acid(tbl, food_id, source_id, amino_acid, amount, confidence) ==
    LET aa_key == AcidKey(amino_acid)
        found == FactsWithKey(tbl, food_id, aa_key)
    IN  IF found # {}
        THEN LET i == CHOOSE j \in found : TRUE
             IN  [tbl EXCEPT ![i].amount_mg_per_100g = amount,
                             ![i].units = "mg/100g",
                             ![i].source_id = source_id,
                             ![i].confidence = MergedConfidence(@, confidence)]
        ELSE Append(tbl, [food_id |-> food_id, amino_acid |-> aa_key,
                          amount_mg_per_100g |-> amount, units |-> "mg/100g",
                          confidence |-> confidence, source_id |-> source_id])

(***************************************************************************)
(* papers/extract_pipeline.py                                              *)
(***************************************************************************)
FAILED_STATUS_CANDIDATES_DONE == "candidates_done"
FAILED_STATUS_RESOLVED == "resolved"
FAILED_STATUS_NEEDS_REVIEW == "needs_review"

\* SQL ILIKE on lowercased text: % matches any run, _ any one character
RECURSIVE LikeMatch(_, _)
LikeMatch(s, pat) ==
    IF pat = "" THEN s = ""
    ELSE IF Head(pat) = "%"
    THEN LikeMatch(s, Tail(pat)) \/ (s # "" /\ LikeMatch(Tail(s), pat))
    ELSE /\ s # ""
         /\ (Head(pat) = "_" \/ Head(pat) = Head(s))
         /\ LikeMatch(Tail(s), Tail(pat))

ilike(s, pat) == LikeMatch(Lower(s), Lower(pat))

\* ilike over the food names and search patterns of the model, evaluated once
table_ilike ==
    Tabulated([x \in FoodNames \X ({"%" \o q \o "%" : q \in QueryInputs}
                          \cup {table_normalize_query[q] : q \in QueryTexts}) |->
        ilike(x[1], x[2])])
cached_ilike(s, pat) ==
    IF <<s, pat>> \in DOMAIN table_ilike THEN table_ilike[<<s, pat>>] ELSE ilike(s, pat)

\* the rows _best_food_match_for_query's SELECT returns
FoodsMatching(catalog, query) ==
    {i \in 1..Len(catalog) : cached_ilike(catalog[i].name, cached_normalize_query(query))}

\* the candidates `order by score desc limit 1` may return
TopCandidates(cands, fs_id) ==
    LET mine == {i \in 1..Len(cands) : cands[i].failed_search_id = fs_id}
    IN  {i \in mine : \A j \in mine : cands[i].score >= cands[j].score}

\* an extraction that would leave the note of such a row empty
NoXmlNoteMissing(doc) == ""

\* the note of a row whose document has no full text
NoXmlNote(doc) == IF Join("; ", doc.warnings) # "" THEN Join("; ", doc.warnings) ELSE "no PMC XML"

\* confidence=0.7 of paper extraction, in hundredths
PAPER_CONFIDENCE == 70

\* the upserts of step 5, one per extracted row
RECURSIVE WriteFacts(_, _, _, _)
WriteFacts(tbl, food_id, source_id, extracted) ==
    IF extracted = <<>> THEN tbl
    ELSE WriteFacts(
            upsert_food_amino_acid(tbl, food_id, source_id, extracted[1].amino_acid,
                                   extracted[1].amount_mg_per_100g, PAPER_CONFIDENCE),
            food_id, source_id, Tail(extracted))

\* len(food.amino_acids)
FactCount(tbl, food_id) == Cardinality({i \in 1..Len(tbl) : tbl[i].food_id = food_id})

\* the result of process_one_failed_search:
\* [crashed, status, note, sources, food_amino_acids, foods, cache]
Processed(crashed, status, note, srcs, facts, catalog, c) ==
    [crashed |-> crashed, status |-> status, note |-> note, sources |-> srcs,
     food_amino_acids |-> facts, foods |-> catalog, cache |-> c]

\* a return that sends the row to review
Review(db, c, note) ==
    Processed(FALSE, FAILED_STATUS_NEEDS_REVIEW, note, db.sources, db.food_amino_acids,
              db.foods, c)

\* scalar_one_or_none() on more than one row raises MultipleResultsFound
Crashed(db, c) ==
    Processed(TRUE, FAILED_STATUS_NEEDS_REVIEW, "", db.sources, db.food_amino_acids,
              db.foods, c)

\* steps 6 and 7: coverage flags and success
MarkResolved(db, c, cand, food_id, srcs, facts, present) ==
    Processed(FALSE, FAILED_STATUS_RESOLVED,
              "extracted from paper candidate " \o ToString(cand), srcs, facts,
              [db.foods EXCEPT
                  ![food_id].essential_aa_present_count = present,
                  ![food_id].amino_data_incomplete =
                      present < db.foods[food_id].essential_aa_total],
              c)

\* step 5, with the source of step 4
WriteExtracted(db, c, cand, food_id, src, facts) ==
    MarkResolved(db, c, cand, food_id, src.sources, facts, FactCount(facts, food_id))

\* steps 4 and 5 for the matched food
Fuse(db, c, cand, doc, extracted, food_id, src) ==
    WriteExtracted(db, c, cand, food_id, src,
                   WriteFacts(db.food_amino_acids, food_id, src.id, extracted))

\* step 3, given the rows the food SELECT returns
MatchFood(db, c, cand, doc, extracted, matches) ==
    IF Cardinality(matches) > 1 THEN Crashed(db, c)
    ELSE IF matches = {} THEN Review(db, c, "could not confidently match food")
    ELSE IF Cardinality(PublicationsWithUrl(db.sources, doc.source_url)) > 1
    THEN Crashed(db, c)
    ELSE Fuse(db, c, cand, doc, extracted, First(matches),
              get_or_create_publication_source(db.sources, doc.title, doc.source_url,
                                               doc.title, doc.doi))

\* step 2, given the extracted rows
AfterExtraction(db, fs_id, c, cand, doc, extracted) ==
    IF extracted = <<>> THEN Review(db, c, "no amino-acid tables found")
    ELSE MatchFood(db, c, cand, doc, extracted,
                   FoodsMatching(db.foods, db.failed_searches[fs_id].query))

\* the steps after the fetch returned got
AfterFetch(db, fs_id, cand, got) ==
    IF got.doc.pmc_xml = <<>> THEN Review(db, got.cache, NoXmlNote(got.doc))
    ELSE AfterExtraction(db, fs_id, got.cache, cand, got.doc,
                         cached_extract_amino_tables(got.doc.pmc_xml[1]))

\* process_one_failed_search for row fs_id with top candidate cand (0 = none) and
\* the replies the network would give
process_one_failed_search(db, fs_id, cand, net) ==
    IF cand = 0 THEN Review(db, db.cache, "no paper candidates available")
    ELSE AfterFetch(db, fs_id, cand,
                    fetch_fulltext_offline_first(
                        db.cache, db.paper_candidates[cand].title,
                        OrElse(db.paper_candidates[cand].url, ""),
                        db.paper_candidates[cand].doi, net))

(***************************************************************************)
(* etl/ingest_usda_bulk.py: step 7 of run, over the kept foods             *)
(* kept food: [fdc_id, name, data_type, acids], acids a sequence of       *)
(* [amino_acid, mg]; confidences are hundredths                            *)
(***************************************************************************)
DEFAULT_SOURCE_NAME == "USDA FoodData Central (Bulk)"
DEFAULT_SOURCE_URL == "https://fdc.nal.usda.gov/download-datasets.html"

NewFood(name, external_source, external_food_id) ==
    [name |-> name, external_source |-> external_source,
     external_food_id |-> external_food_id,
     essential_aa_present_count |-> 0, essential_aa_total |-> 9,
     amino_data_incomplete |-> TRUE]

FoodsWithExternalId(tbl, external_source, external_food_id) ==
    {i \in 1..Len(tbl) : /\ tbl[i].external_source = external_source
                         /\ tbl[i].external_food_id = external_food_id}

\* [sources, id]
get_or_create_usda_source(tbl) ==
    LET found == {i \in 1..Len(tbl) : /\ tbl[i].source_name = DEFAULT_SOURCE_NAME
                                      /\ tbl[i].source_url = DEFAULT_SOURCE_URL
                                      /\ tbl[i].version = None}
    IN  IF found # {} THEN [sources |-> tbl, id |-> First(found)]
        ELSE [sources |-> Append(tbl, [source_type |-> "dataset",
                                       source_name |-> DEFAULT_SOURCE_NAME,
                                       source_url |-> DEFAULT_SOURCE_URL,
                                       citation_text |-> DEFAULT_SOURCE_NAME,
                                       version |-> None]),
              id |-> Len(tbl) + 1]

\* [foods, id]
usda_get_or_create_food(tbl, fdc_id, name) ==
    LET found == FoodsWithExternalId(tbl, "USDA", ToString(fdc_id))
    IN  IF found # {}
        THEN LET i == First(found)
             IN  [foods |-> IF Truthy(name) /\ tbl[i].name # name
                            THEN [tbl EXCEPT ![i].name = name] ELSE tbl,
                  id |-> i]
        ELSE [foods |-> Append(tbl, NewFood(IF Truthy(name) THEN name
                                            ELSE "USDA Food " \o ToString(fdc_id),
                                            "USDA", ToString(fdc_id))),
              id |-> Len(tbl) + 1]

usda_upsert_food_amino_acid(tbl, food_id, source_id, amino_acid, amount, confidence) ==
    LET found == FactsWithKey(tbl, food_id, amino_acid)
    IN  IF found # {}
        THEN [tbl EXCEPT ![First(found)].amount_mg_per_100g = amount,
                         ![First(found)].units = "mg/100g",
                         ![First(found)].source_id = source_id,
                         ![First(found)].confidence = confidence]
        ELSE Append(tbl, [food_id |-> food_id, amino_acid |-> amino_acid,
                          amount_mg_per_100g |-> amount, units |-> "mg/100g",
                          confidence |-> confidence, source_id |-> source_id])

confidence_for_data_type(data_type) ==
    LET dt == Lower(OrElse(data_type, ""))
    IN  IF Contains(dt, "foundation") \/ Contains(dt, "sr legacy") THEN 100
        ELSE IF Contains(dt, "survey") THEN 90
        ELSE IF Contains(dt, "branded") THEN 80
        ELSE 85

RECURSIVE UsdaFacts(_, _, _, _, _)
UsdaFacts(tbl, food_id, source_id, acids, conf) ==
    IF acids = <<>> THEN tbl
    ELSE UsdaFacts(usda_upsert_food_amino_acid(tbl, food_id, source_id,
                                               acids[1].amino_acid, acids[1].mg, conf),
                   food_id, source_id, Tail(acids), conf)

\* the loop over keep_ids on db = [sources, foods, food_amino_acids]
RECURSIVE UsdaFoods(_, _, _)
UsdaFoods(db, source_id, kept) ==
    IF kept = <<>> THEN db
    ELSE LET info == kept[1]
             food == usda_get_or_create_food(db.foods, info.fdc_id, info.name)
             conf == confidence_for_data_type(info.data_type)
         IN  UsdaFoods([db EXCEPT
                          !.foods = food.foods,
                          !.food_amino_acids = UsdaFacts(db.food_amino_acids, food.id,
                                                         source_id, info.acids, conf)],
                       source_id, Tail(kept))

ingest_usda_bulk(db, kept) ==
    LET src == get_or_create_usda_source(db.sources)
    IN  UsdaFoods([db EXCEPT !.sources = src.sources], src.id, kept)

(***************************************************************************)
(* etl/ingest_csv.py                                                       *)
(* the session is [sources, foods, food_amino_acids, pending, failed]:     *)
(* pending holds the facts added but not yet flushed, which no SELECT of   *)
(* the run sees; a flush that breaks uq_food_amino fails the run           *)
(***************************************************************************)
UniqueFactViolated(tbl) ==
    \E i, j \in 1..Len(tbl) : /\ i < j
                              /\ tbl[i].food_id = tbl[j].food_id
                              /\ tbl[i].amino_acid = tbl[j].amino_acid

csv_flush(d) ==
    IF UniqueFactViolated(d.food_amino_acids \o d.pending)
    THEN [d EXCEPT !.failed = TRUE]
    ELSE [d EXCEPT !.food_amino_acids = @ \o d.pending, !.pending = <<>>]

\* [d, id]
csv_get_or_create_source(d, row) ==
    LET source_name == Strip(OrElse(row.source_name, ""))
        source_url == Strip(OrElse(row.source_url, ""))
        version == IF Strip(OrElse(row.version, "")) = "" THEN None
                   ELSE Strip(row.version)
        found == {i \in 1..Len(d.sources) : /\ d.sources[i].source_name = source_name
                                            /\ d.sources[i].source_url = source_url
                                            /\ d.sources[i].version = version}
    IN  IF found # {} THEN [d |-> d, id |-> First(found)]
        ELSE [d |-> csv_flush([d EXCEPT !.sources = Append(@,
                        [source_type |-> Strip(OrElse(row.source_type, "dataset")),
                         source_name |-> source_name,
                         source_url |-> source_url,
                         citation_text |-> Strip(OrElse(row.citation_text, "")),
                         version |-> version])]),
              id |-> Len(d.sources) + 1]

\* [d, id]
csv_get_or_create_food(d, row) ==
    LET name == Strip(OrElse(row.name, ""))
        external_source == Strip(OrElse(row.external_source, "manual"))
        external_food_id == Strip(OrElse(row.external_food_id, ""))
        found == FoodsWithExternalId(d.foods, external_source, external_food_id)
    IN  IF found # {}
        THEN [d |-> IF Truthy(name) /\ d.foods[First(found)].name # name
                    THEN [d EXCEPT !.foods[First(found)].name = name] ELSE d,
              id |-> First(found)]
        ELSE [d |-> csv_flush([d EXCEPT !.foods = Append(@,
                        NewFood(name, external_source, external_food_id))]),
              id |-> Len(d.foods) + 1]

\* row.amount and row.confidence are <<>> when the cell does not hold a number
csv_upsert_food_amino_acid(d, food_id, source_id, row) ==
    LET amino_acid == Lower(Strip(OrElse(row.amino_acid, "")))
        confidence == IF row.confidence = <<>> THEN 100 ELSE row.confidence[1]
        found == FactsWithKey(d.food_amino_acids, food_id, amino_acid)
    IN  IF row.amount = <<>> THEN [d EXCEPT !.failed = TRUE]
        ELSE IF found # {}
        THEN [d EXCEPT !.food_amino_acids[First(found)].amount_mg_per_100g = row.amount[1],
                       !.food_amino_acids[First(found)].source_id = source_id,
                       !.food_amino_acids[First(found)].confidence = confidence,
                       !.food_amino_acids[First(found)].units = "mg/100g"]
        ELSE [d EXCEPT !.pending = Append(@,
                  [food_id |-> food_id, amino_acid |-> amino_acid,
                   amount_mg_per_100g |-> row.amount[1], units |-> "mg/100g",
                   confidence |-> confidence, source_id |-> source_id])]

RECURSIVE CsvRows(_, _)
CsvRows(d, rows) ==
    IF rows = <<>> \/ d.failed THEN d
    ELSE LET src == csv_get_or_create_source(d, rows[1])
             food == IF src.d.failed THEN src ELSE csv_get_or_create_food(src.d, rows[1])
             up == IF food.d.failed THEN food.d
                   ELSE csv_upsert_food_amino_acid(food.d, food.id, src.id, rows[1])
         IN  CsvRows(up, Tail(rows))

\* run(csv_path): the database after the run; a failed run leaves it as it was
ingest_csv(db, rows) ==
    LET d == csv_flush(CsvRows([sources |-> db.sources, foods |-> db.foods,
                                food_amino_acids |-> db.food_amino_acids,
                                pending |-> <<>>, failed |-> FALSE], rows))
    IN  IF d.failed THEN db
        ELSE [sources |-> d.sources, foods |-> d.foods,
              food_amino_acids |-> d.food_amino_acids]

(***************************************************************************)
(* etl/process_failed_searches.py                                          *)
(***************************************************************************)
\* the loop body of run for row r, given the row the similarity query returned
triage_row(tbl, r, best) ==
    LET res == classify_query(tbl[r].query, best)
    IN  [tbl EXCEPT ![r].nlp_label = res.label,
                    ![r].nlp_score = <<res.score>>,
                    ![r].status = IF res.label = "food" THEN "queued" ELSE "rejected",
                    ![r].note = "NLP: " \o res.reason]

\* the tables a commit of the loop over rows may leave
RECURSIVE TriageOutcomes(_, _, _)
TriageOutcomes(tbl, catalog, rows) ==
    IF rows = <<>> THEN {tbl}
    ELSE UNION {TriageOutcomes(triage_row(tbl, rows[1], best), catalog, Tail(rows)) :
                  best \in _best_food_similarity_db(catalog,
                                                    cached__normalize(tbl[rows[1]].query))}

(***************************************************************************)
(* Batch selection.  Each job SELECTs the rows of its input status in its  *)
(* own order and keeps the first `limit`.                                  *)
(***************************************************************************)
\* ORDER BY of the job: row a comes before row b
Before(tbl, job, a, b) ==
    CASE job = "triage" ->
            \/ tbl[a].seen_count > tbl[b].seen_count
            \/ /\ tbl[a].seen_count = tbl[b].seen_count
               /\ tbl[a].last_seen_at > tbl[b].last_seen_at
      [] job = "discovery" -> tbl[a].last_seen_at > tbl[b].last_seen_at
      [] OTHER -> tbl[a].last_seen_at < tbl[b].last_seen_at

RECURSIVE Ordered(_, _, _)
Ordered(tbl, job, ids) ==
    IF ids = {} THEN <<>>
    ELSE LET a == CHOOSE x \in ids : \A y \in ids \ {x} : Before(tbl, job, x, y)
         IN  <<a>> \o Ordered(tbl, job, ids \ {a})

InputStatus(job) ==
    CASE job = "triage" -> "new"
      [] job = "discovery" -> FAILED_READY_STATUS
      [] OTHER -> FAILED_STATUS_CANDIDATES_DONE

\* a batch that ignores the limit
SelectRowsUnlimited(tbl, job, limit) ==
    Ordered(tbl, job, {i \in 1..Len(tbl) : tbl[i].status = InputStatus(job)})

SelectRows(tbl, job, limit) ==
    LET ids == {i \in 1..Len(tbl) : tbl[i].status = InputStatus(job)}
        all == Ordered(tbl, job, ids)
    IN  SubSeq(all, 1, Min(limit, Len(all)))

\* the catalogue the pipeline starts on
EmptyDb == [sources |-> <<>>, foods |-> <<>>, food_amino_acids |-> <<>>]

SeedDb == ingest_usda_bulk(EmptyDb, SeedFoods)

\* the catalogue after a bulk ingest of the dataset with the twin food
TwinDb == ingest_usda_bulk(EmptyDb, TwinFoods)

\* the catalogue after a CSV ingest of the lab sheet on top of the bulk ingest
LabDb == ingest_csv(SeedDb, <<CsvAlanine>>)

\* the catalogues the pipeline may start on
CatalogDbs == {SeedDb, TwinDb, LabDb}

(***************************************************************************)
(* State machine.  A worker runs one batch job at a time in its own ORM    *)
(* session: the rows it SELECTed, its position in them and the candidates  *)
(* it has db.add()ed but not committed.                                    *)
(***************************************************************************)
Workers == 1..MaxWorkers

Idle == [job |-> "idle", rows |-> <<>>, i |-> 1, limit |-> 0, top_n |-> 0,
         added |-> <<>>]

AllIdle == \A w \in Workers : session[w].job = "idle"

\* how the last operation ended: a search logged as row id, a job that ended
\* quietly, or a job op left by an exception on row id of its batch rows
Outcome(op, id, rows, aborted, cause) ==
    [op |-> op, id |-> id, rows |-> rows, aborted |-> aborted, cause |-> cause]
Quiet == Outcome("", 0, <<>>, FALSE, "")

NoFetch == [inputs |-> <<>>, doc |-> <<>>, hit |-> FALSE,
            idconv_requests |-> 0, efetch_requests |-> 0, calls |-> <<>>,
            idconv_failed |-> FALSE, efetch_failed |-> FALSE, prev |-> <<>>]

InitDb(db) ==
    /\ failed_searches = <<>>
    /\ paper_candidates = <<>>
    /\ sources = db.sources
    /\ foods = db.foods
    /\ food_amino_acids = db.food_amino_acids
    /\ cache = <<>>
    /\ session = [w \in Workers |-> Idle]
    /\ clock = 0
    /\ logged = <<>>
    /\ last = Quiet
    /\ fetched = <<>>
    /\ last_fetch = NoFetch

\* the pipeline starts on a catalogue the ingest jobs have filled
Init == \E db \in CatalogDbs : InitDb(db)

\* crud.search_foods: the foods whose name contains the raw query
search_foods(catalog, query) ==
    {i \in 1..Len(catalog) : cached_ilike(catalog[i].name, "%" \o query \o "%")}

Count(h, k) == IF k \in DOMAIN h THEN h[k] ELSE 0

\* routes.search_foods_endpoint for a search that finds nothing
SearchFoodsEndpoint(q) ==
    LET norm == cached_normalize_query(q)
    IN  /\ Len(q) >= 2
        /\ clock < MaxLogs
        /\ search_foods(foods, q) = {}
        /\ failed_searches' = log_failed_search(failed_searches, q, clock + 1)
        /\ clock' = clock + 1
        /\ logged' = IF Len(norm) < 2 THEN logged
                     ELSE [k \in DOMAIN logged \cup {norm} |->
                              Count(logged, k) + (IF k = norm THEN 1 ELSE 0)]
        /\ last' = Outcome("log", LoggedRow(failed_searches, q), <<>>, FALSE, "")
        /\ UNCHANGED <<paper_candidates, sources, foods, food_amino_acids, cache,
                       session, fetched, last_fetch>>

\* a job SELECTs its batch; with nothing to do it ends at once
Begin(w, job, limit, top_n) ==
    LET rows == SelectRows(failed_searches, job, limit)
    IN  /\ session[w].job = "idle"
        /\ IF rows = <<>>
           THEN UNCHANGED <<session, last>>
           ELSE /\ session' = [session EXCEPT ![w] =
                       [job |-> job, rows |-> rows, i |-> 1, limit |-> limit,
                        top_n |-> top_n, added |-> <<>>]]
                /\ UNCHANGED last
        /\ UNCHANGED <<failed_searches, paper_candidates, sources, foods,
                       food_amino_acids, cache, clock, logged, fetched, last_fetch>>

\* etl/process_failed_searches.run: the SELECT
TriageBegin(w, limit) == Begin(w, "triage", limit, 0)

\* etl/process_failed_searches.run: the loop and its single commit
TriageCommit(w) ==
    /\ session[w].job = "triage"
    /\ \E tbl \in TriageOutcomes(failed_searches, foods, session[w].rows) :
          failed_searches' = tbl
    /\ session' = [session EXCEPT ![w] = Idle]
    /\ last' = Quiet
    /\ UNCHANGED <<paper_candidates, sources, foods, food_amino_acids, cache, clock,
                   logged, fetched, last_fetch>>

\* papers/pipeline.run_once: the SELECT
DiscoveryBegin(w, limit, top_n) == Begin(w, "discovery", limit, top_n)

\* papers/pipeline.run_once: one pass of the loop.  A provider that raises
\* ends the run: the with-block leaves without commit
DiscoveryRow(w, crossref, pubmed) ==
    LET ss == session[w]
        r == ss.rows[ss.i]
    IN  /\ ss.job = "discovery"
        /\ ss.i <= Len(ss.rows)
        /\ IF ~crossref.ok \/ ~pubmed.ok
           THEN /\ session' = [session EXCEPT ![w] = Idle]
                /\ last' = Outcome("discovery", r, ss.rows, TRUE, "provider")
           ELSE /\ session' = [session EXCEPT
                       ![w].added = enqueue_candidates_for_failed_search(
                                        paper_candidates, ss.added, r,
                                        failed_searches[r].query,
                                        crossref.hits \o pubmed.hits, ss.top_n),
                       ![w].i = ss.i + 1]
                /\ UNCHANGED last
        /\ UNCHANGED <<failed_searches, paper_candidates, sources, foods,
                       food_amino_acids, cache, clock, logged, fetched, last_fetch>>

\* papers/pipeline.run_once: db.commit() after the loop.  The flush INSERTs the
\* added candidates and UPDATEs the status of every selected row; an INSERT
\* the unique constraint refuses rolls the whole batch back
DiscoveryCommit(w) ==
    LET ss == session[w]
        tbl == paper_candidates \o ss.added
    IN  /\ ss.job = "discovery"
        /\ ss.i > Len(ss.rows)
        /\ session' = [session EXCEPT ![w] = Idle]
        /\ IF UniqueCandidateViolated(tbl)
           THEN /\ last' = Outcome("discovery", 0, ss.rows, TRUE, "integrity")
                /\ UNCHANGED <<failed_searches, paper_candidates>>
           ELSE /\ paper_candidates' = tbl
                /\ failed_searches' =
                       [k \in 1..Len(failed_searches) |->
                          IF \E j \in 1..Len(ss.rows) : ss.rows[j] = k
                          THEN [failed_searches[k] EXCEPT !.status = FAILED_DONE_STATUS]
                          ELSE failed_searches[k]]
                /\ last' = Quiet
        /\ UNCHANGED <<sources, foods, food_amino_acids, cache, clock, logged,
                       fetched, last_fetch>>

\* papers/extract_pipeline.run: the SELECT
ExtractionBegin(w, limit) == Begin(w, "extraction", limit, 0)

\* the session's view of the database
Database ==
    [failed_searches |-> failed_searches, paper_candidates |-> paper_candidates,
     sources |-> sources, foods |-> foods, food_amino_acids |-> food_amino_acids,
     cache |-> cache]

\* the top candidate of row r, 0 when it has none
TopCandidateChoices(r) ==
    IF TopCandidates(paper_candidates, r) = {} THEN {0}
    ELSE TopCandidates(paper_candidates, r)

\* a pass whose exception would leave the status of its row written
ExtractionOutcomeHalfWritten(w, r, out) ==
    /\ cache' = out.cache
    /\ IF out.crashed
       THEN /\ session' = [session EXCEPT ![w] = Idle]
            /\ last' = Outcome("extraction", r, session[w].rows, TRUE, "data")
            /\ failed_searches' = [failed_searches EXCEPT
                   ![r].status = out.status, ![r].note = out.note]
            /\ UNCHANGED <<sources, foods, food_amino_acids>>
       ELSE /\ failed_searches' = [failed_searches EXCEPT
                   ![r].status = out.status, ![r].note = out.note]
            /\ sources' = out.sources
            /\ foods' = out.foods
            /\ food_amino_acids' = out.food_amino_acids
            /\ IF session[w].i < Len(session[w].rows)
               THEN /\ session' = [session EXCEPT ![w].i = session[w].i + 1]
                    /\ UNCHANGED last
               ELSE /\ session' = [session EXCEPT ![w] = Idle]
                    /\ last' = Quiet
    /\ UNCHANGED <<paper_candidates, clock, logged, fetched, last_fetch>>

\* what one pass of the loop leaves, given what process_one_failed_search
\* returned for row r.  An exception ends the run; what the fetch wrote to the
\* cache directory stays
ExtractionOutcome(w, r, out) ==
    /\ cache' = out.cache
    /\ IF out.crashed
       THEN /\ session' = [session EXCEPT ![w] = Idle]
            /\ last' = Outcome("extraction", r, session[w].rows, TRUE, "data")
            /\ UNCHANGED <<failed_searches, sources, foods, food_amino_acids>>
       ELSE /\ failed_searches' = [failed_searches EXCEPT
                   ![r].status = out.status, ![r].note = out.note]
            /\ sources' = out.sources
            /\ foods' = out.foods
            /\ food_amino_acids' = out.food_amino_acids
            /\ IF session[w].i < Len(session[w].rows)
               THEN /\ session' = [session EXCEPT ![w].i = session[w].i + 1]
                    /\ UNCHANGED last
               ELSE /\ session' = [session EXCEPT ![w] = Idle]
                    /\ last' = Quiet
    /\ UNCHANGED <<paper_candidates, clock, logged, fetched, last_fetch>>

\* papers/extract_pipeline.run: one pass of the loop, process_one_failed_search
\* and its commit
ExtractionRow(w, net) ==
    /\ session[w].job = "extraction"
    /\ \E cand \in TopCandidateChoices(session[w].rows[session[w].i]) :
          ExtractionOutcome(w, session[w].rows[session[w].i],
                            process_one_failed_search(
                                Database, session[w].rows[session[w].i], cand, net))

(***************************************************************************)
(* Sequential runs: one worker, one job at a time, searches between jobs.  *)
(***************************************************************************)
Search == AllIdle /\ \E q \in QueryInputs : SearchFoodsEndpoint(q)
Triage == \E limit \in 1..MaxLimit : TriageBegin(1, limit)
TriageEnd == TriageCommit(1)
Discovery == \E limit \in 1..MaxLimit : DiscoveryBegin(1, limit, MaxTopN)
DiscoveryStep == \E c \in PipelineCrossrefReplies, p \in PubmedReplies : DiscoveryRow(1, c, p)
DiscoveryEnd == DiscoveryCommit(1)
Extraction == \E limit \in 1..MaxLimit : ExtractionBegin(1, limit)
ExtractionStep == \E net \in PipelineNetworks : ExtractionRow(1, net)

Next ==
    \/ Search
    \/ Triage
    \/ TriageEnd
    \/ Discovery
    \/ DiscoveryStep
    \/ DiscoveryEnd
    \/ Extraction
    \/ ExtractionStep

Spec == Init /\ [][Next]_vars

(***************************************************************************)
(* Concurrent runs: every worker may run any job at any time, and searches *)
(* arrive while jobs run.  Each commit writes what its session computed    *)
(* from the rows it read when it SELECTed them.                            *)
(***************************************************************************)
ConcQueryInputs == {"oat  bran", "hi"}
ConcCrossrefReplies == {ProviderHits(<<HitDoi>>)}
ConcPubmedReplies == {ProviderHits(<<>>)}
ConcNetworks ==
    Networks({IdconvReply(Answers(200), TRUE, IdconvFound)},
             {EfetchReply(Answers(200), XmlTables), EfetchReply(Unreachable, XmlProse)})

ConcSearch == \E q \in ConcQueryInputs : SearchFoodsEndpoint(q)
ConcTriage == \E w \in Workers : TriageBegin(w, MaxLimit)
ConcTriageEnd == \E w \in Workers : TriageCommit(w)
ConcDiscovery == \E w \in Workers : DiscoveryBegin(w, MaxLimit, MaxTopN)
ConcDiscoveryStep ==
    \E w \in Workers, c \in ConcCrossrefReplies, p \in ConcPubmedReplies :
        DiscoveryRow(w, c, p)
ConcDiscoveryEnd == \E w \in Workers : DiscoveryCommit(w)
ConcExtraction == \E w \in Workers : ExtractionBegin(w, MaxLimit)
ConcExtractionStep == \E w \in Workers, net \in ConcNetworks : ExtractionRow(w, net)

NextConc ==
    \/ ConcSearch
    \/ ConcTriage
    \/ ConcTriageEnd
    \/ ConcDiscovery
    \/ ConcDiscoveryStep
    \/ ConcDiscoveryEnd
    \/ ConcExtraction
    \/ ConcExtractionStep

SpecConc == Init /\ [][NextConc]_vars

(***************************************************************************)
(* The fact store and its three writers, each call or run committed before *)
(* the next starts.                                                        *)
(***************************************************************************)
AcidInputs == {" Lysine ", "leucine"}
AmountInputs == {2400}
ConfidenceInputs == {PAPER_CONFIDENCE, 90}

UsdaDatasets ==
    {<<SeedFoods[1]>>, <<[SeedFoods[1] EXCEPT !.data_type = "branded_food"]>>}

CsvLysine == CsvRow("Oat bran", "1001", " Lysine", <<520>>, <<50>>)
CsvLeucine == CsvRow("Oat bran", "1001", "leucine", <<700>>, <<>>)
CsvBadAmount == CsvRow("Oat bran", "1001", "valine", <<>>, <<>>)
CsvFiles ==
    {<<CsvLysine>>, <<CsvLeucine, CsvLysine>>, <<CsvLeucine, CsvLeucine>>,
     <<CsvLysine, CsvBadAmount>>}

FactDb == [sources |-> sources, foods |-> foods, food_amino_acids |-> food_amino_acids]

StoreUnchanged ==
    UNCHANGED <<failed_searches, paper_candidates, cache, session, clock, logged,
                fetched, last_fetch>>

\* crud.upsert_food_amino_acid, called for a stored food and source and committed
CrudUpsert(food_id, source_id, amino_acid, amount, confidence) ==
    /\ food_amino_acids' = upsert_food_amino_acid(food_amino_acids, food_id, source_id,
                                                  amino_acid, amount, confidence)
    /\ last' = [op |-> "upsert", food_id |-> food_id, source_id |-> source_id,
                amino_acid |-> amino_acid, amount |-> amount, confidence |-> confidence]
    /\ UNCHANGED <<sources, foods>>
    /\ StoreUnchanged

\* the database after a run that left db
Ingested(op, db) ==
    /\ sources' = db.sources
    /\ foods' = db.foods
    /\ food_amino_acids' = db.food_amino_acids
    /\ last' = [op |-> op]
    /\ StoreUnchanged

\* etl/ingest_usda_bulk.run over the kept foods
UsdaIngest(kept) == Ingested("usda", ingest_usda_bulk(FactDb, kept))

\* etl/ingest_csv.run over the rows of a file
CsvIngest(rows) == Ingested("csv", ingest_csv(FactDb, rows))

InitFacts == InitDb(EmptyDb)

PaperWrite ==
    \E food_id \in 1..Len(foods), source_id \in 1..Len(sources), amino_acid \in AcidInputs,
       amount \in AmountInputs, confidence \in ConfidenceInputs :
        CrudUpsert(food_id, source_id, amino_acid, amount, confidence)
UsdaRun == \E kept \in UsdaDatasets : UsdaIngest(kept)
CsvRun == \E rows \in CsvFiles : CsvIngest(rows)

NextFacts ==
    \/ PaperWrite
    \/ UsdaRun
    \/ CsvRun

SpecFacts == InitFacts /\ [][NextFacts]_vars

(***************************************************************************)
(* Direct calls of fetch_fulltext_offline_first, one after the other, on a *)
(* cache directory nothing else writes to.                                 *)
(***************************************************************************)
FetchNetworks ==
    Networks(IdconvReplies \ {IdconvReply(AnswersAfterRetry, TRUE, IdconvFound)},
             {EfetchReply(Answers(200), XmlTablesCrLf),
              EfetchReply(AnswersAfterRetry, XmlTables),
              EfetchReply(Answers(200), XmlError),
              EfetchReply(Answers(200), XmlShort),
              EfetchReply(Answers(404), XmlProse),
              EfetchReply(Unreachable, XmlProse)})

\* the identifier resolution the replies stand for fails
IdconvFails(net) ==
    \/ _http_get(net.idconv.attempts).raised
    \/ _http_get(net.idconv.attempts).status # 200
    \/ ~net.idconv.json_ok

\* the full-text request the replies stand for fails
EfetchFails(net) ==
    \/ _http_get(net.efetch.attempts).raised
    \/ _http_get(net.efetch.attempts).status # 200
    \/ net.efetch.xml.error_tag
    \/ net.efetch.xml.text_len < MIN_XML_LEN

\* what the call did, given its result got
Fetched(inp, net, got) ==
    /\ cache' = got.cache
    /\ fetched' = [k \in DOMAIN fetched \cup {inp} |-> IF k = inp THEN got.doc ELSE fetched[k]]
    /\ last_fetch' = [inputs |-> <<inp>>, doc |-> <<got.doc>>, hit |-> got.hit,
                      idconv_requests |-> got.idconv_requests,
                      efetch_requests |-> got.efetch_requests,
                      calls |-> got.calls,
                      idconv_failed |-> got.idconv_requests > 0 /\ IdconvFails(net),
                      efetch_failed |-> got.efetch_requests > 0 /\ EfetchFails(net),
                      prev |-> IF inp \in DOMAIN fetched THEN <<fetched[inp]>> ELSE <<>>]
    /\ UNCHANGED <<failed_searches, paper_candidates, sources, foods, food_amino_acids,
                   session, clock, logged, last>>

Fetch(inp, net) ==
    Fetched(inp, net, fetch_fulltext_offline_first(cache, inp[1], inp[2], inp[3], net))

DirectFetchInputs == FetchInputs \ {<<HitDoi.title, HitDoi.url, None>>}

NextFetch == \E inp \in DirectFetchInputs, net \in FetchNetworks : Fetch(inp, net)

SpecFetch == InitFacts /\ [][NextFetch]_vars

(***************************************************************************)
(* Direct calls of crud.get_or_create_publication_source, each committed   *)
(* before the next, on a store that is empty or holds the publication a    *)
(* CSV ingest recorded without a name.                                     *)
(***************************************************************************)
RECURSIVE Repeat(_, _)
Repeat(s, n) == IF n = 0 THEN "" ELSE s \o Repeat(s, n - 1)

ShortUrl == "https://a.org/1"
SheetUrl == "https://b.org/2"
\* a URL of 510 characters, longer than the 500 the source_url column keeps
LongUrl == "https://c.org/" \o Repeat("abcdefgh", 62)

SourceNameInputs == {"", "Paper A", "Paper B"}
SourceUrlInputs == {ShortUrl, SheetUrl, LongUrl}
CitationInputs == {"", "Cit A"}
VersionInputs == {None, "10.1/a"}

\* the calls made: every combination for the short URLs, one for the long one
PublicationCalls ==
    ({ShortUrl, SheetUrl} \X SourceNameInputs \X CitationInputs \X VersionInputs)
        \cup {<<LongUrl, "Paper A", "Cit A", None>>}

\* the sheet row that records a publication by its URL only
CsvPublication ==
    [CsvRow("Oat bran", "1001", "lysine", <<520>>, <<>>) EXCEPT
        !.source_type = "publication", !.source_name = "", !.source_url = SheetUrl]

SheetDb == ingest_csv(EmptyDb, <<CsvPublication>>)

InitSources == InitDb(EmptyDb) \/ InitDb(SheetDb)

\* the ids the calls with each URL have returned so far
NoneReturned == [u \in SourceUrlInputs |-> {}]
Returned == IF "returned" \in DOMAIN last THEN last.returned ELSE NoneReturned

\* one call and its commit; scalar_one_or_none() raises on a URL stored twice
PublicationCall(source_name, source_url, citation_text, version) ==
    LET found == PublicationsWithUrl(sources, source_url)
        out == get_or_create_publication_source(sources, source_name, source_url,
                                                citation_text, version)
        raised == Cardinality(found) > 1
    IN  /\ Len(sources) < MaxSources \/ found # {}
        /\ sources' = IF raised THEN sources ELSE out.sources
        /\ last' = [op |-> "publication", raised |-> raised,
                    source_name |-> source_name, source_url |-> source_url,
                    citation_text |-> citation_text, version |-> version,
                    found |-> IF Cardinality(found) = 1 THEN <<sources[First(found)]>>
                              ELSE <<>>,
                    id |-> IF raised THEN 0 ELSE out.id,
                    returned |-> IF raised THEN Returned
                                 ELSE [Returned EXCEPT ![source_url] = @ \cup {out.id}]]
        /\ UNCHANGED <<foods, food_amino_acids>>
        /\ StoreUnchanged

NextSources == \E c \in PublicationCalls : PublicationCall(c[2], c[1], c[3], c[4])

SpecSources == InitSources /\ [][NextSources]_vars

(***************************************************************************)
(* Direct calls of ranker.rank_hits.                                       *)
(***************************************************************************)
MaxHits == 3        \* hits of one list handed to rank_hits
MaxRank == 4        \* largest top_n handed to rank_hits

HitLists == UNION {[1..n -> RankPool] : n \in 0..MaxHits}

\* the arguments of one call
RankArgs(hits, query, top_n) ==
    [op |-> "rank_args", hits |-> hits, query |-> query, top_n |-> top_n]

InitRank ==
    \E hits \in HitLists, query \in RankQueries, top_n \in 0..MaxRank :
        /\ failed_searches = <<>>
        /\ paper_candidates = <<>>
        /\ sources = EmptyDb.sources
        /\ foods = EmptyDb.foods
        /\ food_amino_acids = EmptyDb.food_amino_acids
        /\ cache = <<>>
        /\ session = [w \in Workers |-> Idle]
        /\ clock = 0
        /\ logged = <<>>
        /\ last = RankArgs(hits, query, top_n)
        /\ fetched = <<>>
        /\ last_fetch = NoFetch

\* the call: nothing but the returned list is produced
RankCall ==
    /\ last.op = "rank_args"
    /\ last' = [op |-> "rank", hits |-> last.hits, query |-> last.query,
                top_n |-> last.top_n,
                ranked |-> rank_hits(last.hits, last.query, last.top_n)]
    /\ UNCHANGED <<sources, foods, food_amino_acids>>
    /\ StoreUnchanged

NextRank == RankCall

SpecRank == InitRank /\ [][NextRank]_vars
(***************************************************************************)
(* Direct calls of ranker.score_hit on a hit whose text holds a phrase     *)
(* once, and on the same hit with the phrase a second time.                *)
(***************************************************************************)
ScorePhrases ==
    Range(MEASUREMENT_KEYWORDS) \cup Range(LOW_VALUE_KEYWORDS) \cup {"oats", "barley"}
ScoreFields == {"title", "abstract"}
ScoreProviders == {"pubmed", "crossref", "openalex"}
ScoreQueries == {"oats lysine", ""}

\* the text with the phrase once (times = 1) or twice
PhraseText(phrase, times) ==
    IF times = 1 THEN "Study of " \o phrase \o " in oats"
    ELSE "Study of " \o phrase \o " in oats and " \o phrase

\* the hit with the text in its title or in its abstract
PhraseHit(phrase, field, provider, times) ==
    [provider |-> provider,
     title |-> IF field = "title" THEN PhraseText(phrase, times) ELSE "Oats",
     doi |-> None, url |-> None, published_year |-> <<>>,
     abstract |-> IF field = "abstract" THEN PhraseText(phrase, times) ELSE None]

InitScore ==
    \E phrase \in ScorePhrases, field \in ScoreFields, provider \in ScoreProviders,
       query \in ScoreQueries :
        /\ failed_searches = <<>>
        /\ paper_candidates = <<>>
        /\ sources = <<>>
        /\ foods = <<>>
        /\ food_amino_acids = <<>>
        /\ cache = <<>>
        /\ session = [w \in Workers |-> Idle]
        /\ clock = 0
        /\ logged = <<>>
        /\ last = [op |-> "score_args", phrase |-> phrase, field |-> field,
                   provider |-> provider, query |-> query]
        /\ fetched = <<>>
        /\ last_fetch = NoFetch

\* the two calls: raw in tenths for the phrase once and for the phrase twice
ScoreCall ==
    /\ last.op = "score_args"
    /\ last' = [op |-> "score", phrase |-> last.phrase, field |-> last.field,
                provider |-> last.provider, query |-> last.query,
                once |-> score_hit(PhraseHit(last.phrase, last.field, last.provider, 1),
                                   last.query),
                twice |-> score_hit(PhraseHit(last.phrase, last.field, last.provider, 2),
                                    last.query)]
    /\ UNCHANGED <<sources, foods, food_amino_acids>>
    /\ StoreUnchanged

NextScore == ScoreCall

SpecScore == InitScore /\ [][NextScore]_vars


(***************************************************************************)
(* Direct calls of nlp_food_filter.classify_query, each on a catalog that  *)
(* does not change during the call.                                        *)
(***************************************************************************)
ClassifyInputs ==
    {None, "", "   ", "?!", "hi", " x", "a.", "12", "12345", " 007 ", "12 5",
     "https://oat bran", "http://x", "www.oat bran", "WWW.Rye", "hello", "bread",
     "oat brann"}

ClassifyArgs(q) == [op |-> "classify_args", q |-> q]

InitClassify ==
    \E db \in CatalogDbs \cup {EmptyDb}, q \in ClassifyInputs :
        /\ failed_searches = <<>>
        /\ paper_candidates = <<>>
        /\ sources = db.sources
        /\ foods = db.foods
        /\ food_amino_acids = db.food_amino_acids
        /\ cache = <<>>
        /\ session = [w \in Workers |-> Idle]
        /\ clock = 0
        /\ logged = <<>>
        /\ last = ClassifyArgs(q)
        /\ fetched = <<>>
        /\ last_fetch = NoFetch

\* what a call that returns early stands in for the row of the query it skips
NoRow == [sim |-> 0, name |-> None]

\* the (result, number of similarity queries made) pairs of classify_query(q)
ClassifyReturns(catalog, norm, early) ==
    {[res |-> ClassifyFrom(early, best), lookups |-> IF early # <<>> THEN 0 ELSE 1] :
        best \in IF early # <<>> THEN {NoRow} ELSE _best_food_similarity_db(catalog, norm)}

ClassifyCall ==
    /\ last.op = "classify_args"
    /\ \E out \in ClassifyReturns(foods, _normalize(last.q), HardRejects(_normalize(last.q))) :
          last' = [op |-> "classify", q |-> last.q, res |-> out.res, lookups |-> out.lookups]
    /\ UNCHANGED <<sources, foods, food_amino_acids>>
    /\ StoreUnchanged

NextClassify == ClassifyCall

SpecClassify == InitClassify /\ [][NextClassify]_vars

(***************************************************************************)
(* Direct calls of failed_searches.log_failed_search, each committed by    *)
(* its caller before the next.                                             *)
(***************************************************************************)
MaxCalls == 3       \* calls of log_failed_search in one behaviour

LogInputs == {None, "", "  ", "a", " x", "X ", "ab", "oat  bran", "Oat bran"}

InitLog == InitDb(EmptyDb)

LogCall(query) ==
    /\ clock < MaxCalls
    /\ failed_searches' = log_failed_search(failed_searches, query, clock + 1)
    /\ clock' = clock + 1
    /\ last' = [op |-> "log_call", query |-> query,
                returned |-> LoggedRow(failed_searches, query)]
    /\ UNCHANGED <<paper_candidates, sources, foods, food_amino_acids, cache, session,
                   logged, fetched, last_fetch>>

NextLog == \E query \in LogInputs : LogCall(query)

SpecLog == InitLog /\ [][NextLog]_vars

(***************************************************************************)
(* Direct calls of failed_searches.normalize_query.                        *)
(***************************************************************************)
MaxText == 6        \* characters of a text handed to normalize_query

TextAlphabet == {" ", "\t", "a", "B"}

RECURSIVE TextsOfLen(_)
TextsOfLen(n) ==
    IF n = 0 THEN {""} ELSE {c \o t : c \in TextAlphabet, t \in TextsOfLen(n - 1)}

NormalizeInputs == {None} \cup UNION {TextsOfLen(n) : n \in 0..MaxText}

InitNormalize ==
    \E x \in NormalizeInputs :
        /\ failed_searches = <<>>
        /\ paper_candidates = <<>>
        /\ sources = <<>>
        /\ foods = <<>>
        /\ food_amino_acids = <<>>
        /\ cache = <<>>
        /\ session = [w \in Workers |-> Idle]
        /\ clock = 0
        /\ logged = <<>>
        /\ last = [op |-> "normalize_args", x |-> x]
        /\ fetched = <<>>
        /\ last_fetch = NoFetch

\* the call, and the call on its result
NormalizeCall ==
    /\ last.op = "normalize_args"
    /\ last' = [op |-> "normalize", x |-> last.x, once |-> normalize_query(last.x),
                twice |-> normalize_query(normalize_query(last.x))]
    /\ UNCHANGED <<sources, foods, food_amino_acids>>
    /\ StoreUnchanged

NextNormalize == NormalizeCall

SpecNormalize == InitNormalize /\ [][NextNormalize]_vars

(***************************************************************************)
(* Direct calls of table_extractor.normalize_to_mg_per_100g.  Amounts are  *)
(* in tenths, in and out: 24 is 2.4.                                       *)
(***************************************************************************)
AmountTenths == {0, 1, 24, 50, 240}

UnitInputs ==
    {"mg/100g", "MG/100G", "mg / 100 g", "g/100g", " G/100g", "g/100 g", "mg/g", "Mg/G",
     "g/kg", "g / kg", "mg/kg", "g/g", "kg/g", "oz", "", "%", "mg/100ml",
     "mgper100g", "mg per 100 g", "gper100g", "mgperg", "g per kg"}

InitUnits ==
    \E amount \in AmountTenths, units \in UnitInputs :
        /\ failed_searches = <<>>
        /\ paper_candidates = <<>>
        /\ sources = <<>>
        /\ foods = <<>>
        /\ food_amino_acids = <<>>
        /\ cache = <<>>
        /\ session = [w \in Workers |-> Idle]
        /\ clock = 0
        /\ logged = <<>>
        /\ last = [op |-> "units_args", amount |-> amount, units |-> units]
        /\ fetched = <<>>
        /\ last_fetch = NoFetch

UnitsCall ==
    /\ last.op = "units_args"
    /\ last' = [op |-> "units", amount |-> last.amount, units |-> last.units,
                out |-> normalize_to_mg_per_100g(last.amount, last.units)]
    /\ UNCHANGED <<sources, foods, food_amino_acids>>
    /\ StoreUnchanged

NextUnits == UnitsCall

SpecUnits == InitUnits /\ [][NextUnits]_vars

(***************************************************************************)
(* _http_get against every course three tries can take.                    *)
(***************************************************************************)
GetStatuses == {200, 404, 429, 500, 502, 503, 504}
GetAttempts == {Attempt(TRUE, 0)} \cup {Attempt(FALSE, status) : status \in GetStatuses}
GetScripts == [1..HTTP_MAX_RETRIES -> GetAttempts]

InitGet ==
    \E attempts \in GetScripts :
        /\ failed_searches = <<>>
        /\ paper_candidates = <<>>
        /\ sources = <<>>
        /\ foods = <<>>
        /\ food_amino_acids = <<>>
        /\ cache = <<>>
        /\ session = [w \in Workers |-> Idle]
        /\ clock = 0
        /\ logged = <<>>
        /\ last = [op |-> "get_args", attempts |-> attempts]
        /\ fetched = <<>>
        /\ last_fetch = NoFetch

GetCall ==
    /\ last.op = "get_args"
    /\ last' = [op |-> "get", attempts |-> last.attempts, out |-> _http_get(last.attempts)]
    /\ UNCHANGED <<sources, foods, food_amino_acids>>
    /\ StoreUnchanged

NextGet == GetCall

SpecGet == InitGet /\ [][NextGet]_vars
(***************************************************************************)
(* Direct calls of fetch_fulltext_offline_first on a cache directory whose *)
(* metadata files have been damaged: the .json file of an entry no longer  *)
(* parses, its .xml file being absent or still in place.                   *)
(***************************************************************************)
CorruptMeta ==
    [valid |-> FALSE, title |-> "", source_url |-> "", doi |-> None, pmid |-> None,
     pmcid |-> None, provider |-> "", warnings |-> <<>>]

\* the states of an entry before the first call
DamagedFiles ==
    {NoFiles,
     [meta |-> <<CorruptMeta>>, xml |-> <<>>],
     [meta |-> <<CorruptMeta>>, xml |-> <<XmlProse>>]}

KeyOf(inp) == cached_DerivedIds(inp[1], inp[2], inp[3]).key

CorruptKeys == {KeyOf(inp) : inp \in DirectFetchInputs}

CorruptNetworks ==
    Networks({IdconvReply(Answers(200), TRUE, IdconvFound),
              IdconvReply(Unreachable, TRUE, <<>>)},
             {EfetchReply(Answers(200), XmlTables),
              EfetchReply(Answers(200), XmlShort),
              EfetchReply(Unreachable, XmlProse)})

InitCorrupt ==
    \E files \in [CorruptKeys -> DamagedFiles] :
        /\ failed_searches = <<>>
        /\ paper_candidates = <<>>
        /\ sources = <<>>
        /\ foods = <<>>
        /\ food_amino_acids = <<>>
        /\ cache = [k \in {c \in CorruptKeys : files[c] # NoFiles} |-> files[k]]
        /\ session = [w \in Workers |-> Idle]
        /\ clock = 0
        /\ logged = <<>>
        /\ last = Quiet
        /\ fetched = <<>>
        /\ last_fetch = NoFetch

NextCorrupt == \E inp \in DirectFetchInputs, net \in CorruptNetworks : Fetch(inp, net)

SpecCorrupt == InitCorrupt /\ [][NextCorrupt]_vars
(***************************************************************************)
(* Concurrent calls of fetch_fulltext_offline_first on one cache           *)
(* directory, as two extraction runs make them.  A call reads the cache    *)
(* and, on a miss, asks the services; it then writes the metadata file and *)
(* the XML file in two steps, and other calls run between them.            *)
(***************************************************************************)
ShareInputs == {<<HitPmc.title, HitPmc.url, None>>, <<HitDoi.title, HitDoi.url, HitDoi.doi>>}

ShareNetworks ==
    Networks({IdconvReply(Answers(200), TRUE, IdconvFound),
              IdconvReply(Unreachable, TRUE, <<>>)},
             {EfetchReply(Answers(200), XmlTables),
              EfetchReply(Unreachable, XmlProse)})

\* the call of worker w up to the cache write: a hit returns at once
FetchRead(w, inp, net, got) ==
    /\ session[w].job = "idle"
    /\ IF got.hit
       THEN Fetched(inp, net, got)
       ELSE /\ session' = [session EXCEPT ![w] =
                   [Idle EXCEPT !.job = "fetch",
                                !.added = <<[inp |-> inp, net |-> net,
                                             got |-> [got EXCEPT !.cache = <<>>]]>>]]
            /\ UNCHANGED <<failed_searches, paper_candidates, sources, foods,
                           food_amino_acids, cache, clock, logged, last, fetched,
                           last_fetch>>

\* _write_cache of worker w: meta_path.write_text
FetchWriteMeta(w) ==
    /\ session[w].job = "fetch"
    /\ session[w].i = 1
    /\ cache' = write_meta_file(cache, KeyOf(session[w].added[1].inp),
                                session[w].added[1].got.doc)
    /\ session' = [session EXCEPT ![w].i = 2]
    /\ UNCHANGED <<failed_searches, paper_candidates, sources, foods, food_amino_acids,
                   clock, logged, last, fetched, last_fetch>>

\* _write_cache of worker w: xml_path.write_text, and the return
FetchWriteXml(w) ==
    LET p == session[w].added[1]
    IN  /\ session[w].job = "fetch"
        /\ session[w].i = 2
        /\ cache' = write_xml_file(cache, KeyOf(p.inp), p.got.doc)
        /\ fetched' = [k \in DOMAIN fetched \cup {p.inp} |->
                          IF k = p.inp THEN p.got.doc ELSE fetched[k]]
        /\ last_fetch' = [inputs |-> <<p.inp>>, doc |-> <<p.got.doc>>, hit |-> FALSE,
                          idconv_requests |-> p.got.idconv_requests,
                          efetch_requests |-> p.got.efetch_requests,
                          calls |-> p.got.calls,
                          idconv_failed |-> p.got.idconv_requests > 0 /\ IdconvFails(p.net),
                          efetch_failed |-> p.got.efetch_requests > 0 /\ EfetchFails(p.net),
                          prev |-> IF p.inp \in DOMAIN fetched THEN <<fetched[p.inp]>>
                                   ELSE <<>>]
        /\ session' = [session EXCEPT ![w] = Idle]
        /\ UNCHANGED <<failed_searches, paper_candidates, sources, foods,
                       food_amino_acids, clock, logged, last>>

ShareRead ==
    \E w \in Workers, inp \in ShareInputs, net \in ShareNetworks :
        FetchRead(w, inp, net,
                  fetch_fulltext_offline_first(cache, inp[1], inp[2], inp[3], net))
ShareWriteMeta == \E w \in Workers : FetchWriteMeta(w)
ShareWriteXml == \E w \in Workers : FetchWriteXml(w)

NextShare ==
    \/ ShareRead
    \/ ShareWriteMeta
    \/ ShareWriteXml

SpecShare == InitFacts /\ [][NextShare]_vars



(***************************************************************************)
(* Direct calls of table_extractor.extract_amino_tables_from_pmc_xml on a  *)
(* document with one table of one row.                                     *)
(***************************************************************************)
RowNames ==
    {"Lysine", "Lys", "Leucine", "Isoleucine", "Ile", "Valine (Val)", "Methionine",
     "Method", "Histidine", "This value", "Total", "Protein", "Threonine",
     "Tryptophan", "Phenylalanine", "Moisture"}

RowValues ==
    {"24 mg/g", "2 g/100g", "5 g / kg", "3 mg/kg", "2 g/100 g", "7 G/G", "12", "n.d.",
     "2.4 g/100 g", "2.4 g/100g", "2400 mg/100g"}

\* the row with the name and the value in two cells, or in a single cell
RowInputs ==
    {[cells |-> <<name, value>>] : name \in RowNames, value \in RowValues}
        \cup {[cells |-> <<name \o " " \o value>>] : name \in RowNames, value \in RowValues}

InitRows ==
    \E row \in RowInputs :
        /\ failed_searches = <<>>
        /\ paper_candidates = <<>>
        /\ sources = <<>>
        /\ foods = <<>>
        /\ food_amino_acids = <<>>
        /\ cache = <<>>
        /\ session = [w \in Workers |-> Idle]
        /\ clock = 0
        /\ logged = <<>>
        /\ last = [op |-> "rows_args", row |-> row]
        /\ fetched = <<>>
        /\ last_fetch = NoFetch

RowsCall ==
    /\ last.op = "rows_args"
    /\ last' = [op |-> "rows", row |-> last.row,
                out |-> extract_amino_tables_from_pmc_xml(
                            XmlBody(5000, FALSE, FALSE, <<last.row>>))]
    /\ UNCHANGED <<sources, foods, food_amino_acids>>
    /\ StoreUnchanged

NextRows == RowsCall

SpecRows == InitRows /\ [][NextRows]_vars

(***************************************************************************)
(* Searches that find nothing, served by concurrent requests: each request *)
(* has its own session, reads the row in log_failed_search and commits     *)
(* afterwards in routes.search_foods_endpoint.                             *)
(***************************************************************************)
\* FailedQuery.normalized text is unique: an INSERT of a text a committed row
\* holds is refused
UniqueQueryViolated(tbl, row) == RowsWithNorm(tbl, row.normalized_query) # {}

\* log_failed_search in the session of request w: the SELECT, then the row as
\* the session will write it, an UPDATE of the row found (rows = <<id>>) with
\* the count it loaded plus one, or an INSERT (rows = <<>>)
LogRead(w, q) ==
    LET norm == cached_normalize_query(q)
        found == RowsWithNorm(failed_searches, norm)
        pending ==
            IF found # {}
            THEN [failed_searches[First(found)] EXCEPT
                      !.seen_count = @ + 1, !.last_seen_at = clock + 1]
            ELSE [query |-> Strip(q), normalized_query |-> norm, seen_count |-> 1,
                  last_seen_at |-> clock + 1, status |-> "new", nlp_label |-> None,
                  nlp_score |-> <<>>, note |-> None]
    IN  /\ session[w].job = "idle"
        /\ Len(q) >= 2
        /\ Len(norm) >= 2
        /\ clock < MaxCalls
        /\ search_foods(foods, q) = {}
        /\ session' = [session EXCEPT ![w] =
               [job |-> "log", rows |-> IF found # {} THEN <<First(found)>> ELSE <<>>,
                i |-> 1, top_n |-> 0, added |-> <<pending>>]]
        /\ clock' = clock + 1
        /\ logged' = [k \in DOMAIN logged \cup {norm} |->
                         Count(logged, k) + (IF k = norm THEN 1 ELSE 0)]
        /\ UNCHANGED <<failed_searches, paper_candidates, sources, foods,
                       food_amino_acids, cache, last, fetched, last_fetch>>

\* db.commit() of the request: the UPDATE writes the columns the session
\* changed; the INSERT waits for a conflicting transaction and fails when
\* that one has committed the same text
LogCommit(w) ==
    LET ss == session[w]
        row == ss.added[1]
    IN  /\ ss.job = "log"
        /\ session' = [session EXCEPT ![w] = Idle]
        /\ IF ss.rows # <<>>
           THEN /\ failed_searches' =
                       [failed_searches EXCEPT
                           ![ss.rows[1]].seen_count = row.seen_count,
                           ![ss.rows[1]].last_seen_at = row.last_seen_at]
                /\ last' = Outcome("log", ss.rows[1], <<>>, FALSE, "")
           ELSE IF UniqueQueryViolated(failed_searches, row)
           THEN /\ last' = Outcome("log", 0, <<>>, TRUE, "integrity")
                /\ UNCHANGED failed_searches
           ELSE /\ failed_searches' = Append(failed_searches, row)
                /\ last' = Outcome("log", Len(failed_searches) + 1, <<>>, FALSE, "")
        /\ UNCHANGED <<paper_candidates, sources, foods, food_amino_acids, cache,
                       clock, logged, fetched, last_fetch>>

ConcLogInputs == {"oat  bran", "Oat  BRAN ", "bread"}

ConcLogRead == \E w \in Workers, q \in ConcLogInputs : LogRead(w, q)
ConcLogCommit == \E w \in Workers : LogCommit(w)

NextLogConc ==
    \/ ConcLogRead
    \/ ConcLogCommit

SpecLogConc == InitLog /\ [][NextLogConc]_vars

(***************************************************************************)
(* Extraction workers with the commit of each row as a step of its own:    *)
(* process_one_failed_search reads the committed tables and leaves its     *)
(* writes in the session; db.commit() applies them to the tables as they   *)
(* are then.                                                               *)
(***************************************************************************)
\* a second paper, whose table lists lysine only
XmlLysine == XmlBody(5000, FALSE, FALSE, <<[cells |-> <<"Lysine", "26 mg/g">>]>>)

FuseNetworks ==
    Networks({IdconvReply(Answers(200), TRUE, IdconvFound)},
             {EfetchReply(Answers(200), XmlTables), EfetchReply(Answers(200), XmlLysine)})

\* two searches that found nothing, both triaged as the food Oat bran and
\* both given a candidate by discovery
FuseQueries == <<"oat  bran", "oat  bran%">>

FuseSearches ==
    LET logged_rows == log_failed_search(log_failed_search(<<>>, FuseQueries[1], 1),
                                         FuseQueries[2], 2)
        triaged == CHOOSE t \in TriageOutcomes(logged_rows, SeedDb.foods, <<1, 2>>) : TRUE
    IN  [k \in 1..2 |-> [triaged[k] EXCEPT !.status = FAILED_DONE_STATUS]]

FuseCandidates ==
    enqueue_candidates_for_failed_search(<<>>, <<>>, 1, FuseQueries[1], <<HitDoi>>, MaxTopN)
        \o enqueue_candidates_for_failed_search(<<>>, <<>>, 2, FuseQueries[2], <<HitPmc>>,
                                                MaxTopN)

InitFuse ==
    /\ failed_searches = FuseSearches
    /\ paper_candidates = FuseCandidates
    /\ sources = SeedDb.sources
    /\ foods = SeedDb.foods
    /\ food_amino_acids = SeedDb.food_amino_acids
    /\ cache = <<>>
    /\ session = [w \in Workers |-> Idle]
    /\ clock = 2
    /\ logged = <<>>
    /\ last = Quiet
    /\ fetched = <<>>
    /\ last_fetch = NoFetch

\* what process_one_failed_search leaves in the session of worker w: the
\* tables it read and the tables as it wants them
ProcessOutcome(w, r, out) ==
    /\ cache' = out.cache
    /\ IF out.crashed
       THEN /\ session' = [session EXCEPT ![w] = Idle]
            /\ last' = Outcome("extraction", r, session[w].rows, TRUE, "data")
       ELSE /\ session' = [session EXCEPT ![w].added = <<[seen |-> FactDb, out |-> out]>>]
            /\ UNCHANGED last
    /\ UNCHANGED <<failed_searches, paper_candidates, sources, foods, food_amino_acids,
                   clock, logged, fetched, last_fetch>>

\* papers/extract_pipeline.run: process_one_failed_search for the next row
ExtractionProcess(w, net) ==
    /\ session[w].job = "extraction"
    /\ session[w].added = <<>>
    /\ \E cand \in TopCandidateChoices(session[w].rows[session[w].i]) :
          ProcessOutcome(w, session[w].rows[session[w].i],
                         process_one_failed_search(
                             Database, session[w].rows[session[w].i], cand, net))

\* the rows of a table after the session's UPDATEs: a row the session changed
\* is written as the session has it, any other row stays as committed
Updated(current, seen, wanted) ==
    [i \in 1..Len(current) |->
        IF i <= Len(seen) /\ wanted[i] # seen[i] THEN wanted[i] ELSE current[i]]

\* the rows the session INSERTs
Inserted(seen, wanted) == SubSeq(wanted, Len(seen) + 1, Len(wanted))

\* a fact of the session, its source being the one the session created
WithSourceId(fact, created, id) ==
    IF fact.source_id = created THEN [fact EXCEPT !.source_id = id] ELSE fact

\* the fact table the commit asks for: the source the session created gets
\* its id when it is stored
CommittedFacts(current, seen, out, source_id) ==
    LET wanted == [i \in 1..Len(out.food_amino_acids) |->
                      WithSourceId(out.food_amino_acids[i], Len(seen.sources) + 1, source_id)]
    IN  Updated(current, seen.food_amino_acids, wanted)
            \o Inserted(seen.food_amino_acids, wanted)

\* the commit of row r with the fact table facts; an INSERT that the unique
\* constraint (food_id, amino_acid) refuses raises and ends the run
CommitOutcome(w, r, seen, out, facts) ==
    IF UniqueFactViolated(facts)
    THEN /\ session' = [session EXCEPT ![w] = Idle]
         /\ last' = Outcome("extraction", r, session[w].rows, TRUE, "integrity")
         /\ UNCHANGED <<failed_searches, sources, foods, food_amino_acids>>
    ELSE /\ food_amino_acids' = facts
         /\ sources' = Updated(sources, seen.sources, out.sources)
                           \o Inserted(seen.sources, out.sources)
         /\ foods' = Updated(foods, seen.foods, out.foods)
         /\ failed_searches' = [failed_searches EXCEPT
                ![r].status = out.status, ![r].note = out.note]
         /\ IF session[w].i < Len(session[w].rows)
            THEN /\ session' = [session EXCEPT ![w].i = session[w].i + 1,
                                               ![w].added = <<>>]
                 /\ UNCHANGED last
            ELSE /\ session' = [session EXCEPT ![w] = Idle]
                 /\ last' = Quiet

\* papers/extract_pipeline.run: db.commit() after process_one_failed_search
ExtractionCommit(w) ==
    /\ session[w].job = "extraction"
    /\ session[w].added # <<>>
    /\ CommitOutcome(w, session[w].rows[session[w].i], session[w].added[1].seen,
                     session[w].added[1].out,
                     CommittedFacts(food_amino_acids, session[w].added[1].seen,
                                    session[w].added[1].out, Len(sources) + 1))
    /\ UNCHANGED <<paper_candidates, cache, clock, logged, fetched, last_fetch>>

FuseSelect == \E w \in Workers, limit \in 1..MaxLimit : ExtractionBegin(w, limit)
FuseProcess == \E w \in Workers, net \in FuseNetworks : ExtractionProcess(w, net)
FuseCommit == \E w \in Workers : ExtractionCommit(w)

NextFuse ==
    \/ FuseSelect
    \/ FuseProcess
    \/ FuseCommit

SpecFuse == InitFuse /\ [][NextFuse]_vars

(***************************************************************************)
(* The SELECT of each job over a table of three rows of one status, with   *)
(* the counts and last-seen times the searches may have left.              *)
(***************************************************************************)
SelectQueries == <<"oat  bran", "oat brann", "ryee">>

\* the three searches logged, and the rows after triage has queued them
SelectLogged ==
    log_failed_search(
        log_failed_search(log_failed_search(<<>>, SelectQueries[1], 1), SelectQueries[2], 2),
        SelectQueries[3], 3)

SelectTriaged == CHOOSE t \in TriageOutcomes(SelectLogged, SeedDb.foods, <<1, 2, 3>>) : TRUE

SelectCounts == [1..3 -> 1..2]
SelectTimes == {f \in [1..3 -> 4..6] : \A a, b \in 1..3 : a # b => f[a] # f[b]}
SelectStatuses == {"new", FAILED_READY_STATUS, FAILED_STATUS_CANDIDATES_DONE}

SelectTable(counts, times, status) ==
    [k \in 1..3 |->
        [(IF status = "new" THEN SelectLogged[k] ELSE SelectTriaged[k]) EXCEPT
            !.status = status, !.seen_count = counts[k], !.last_seen_at = times[k]]]

InitSelect ==
    \E counts \in SelectCounts, times \in SelectTimes, status \in SelectStatuses :
        /\ failed_searches = SelectTable(counts, times, status)
        /\ paper_candidates = <<>>
        /\ sources = SeedDb.sources
        /\ foods = SeedDb.foods
        /\ food_amino_acids = SeedDb.food_amino_acids
        /\ cache = <<>>
        /\ session = [w \in Workers |-> Idle]
        /\ clock = 6
        /\ logged = <<>>
        /\ last = Quiet
        /\ fetched = <<>>
        /\ last_fetch = NoFetch

SelectTriage == \E limit \in 1..MaxLimit : AllIdle /\ TriageBegin(1, limit)
SelectDiscovery == \E limit \in 1..MaxLimit : AllIdle /\ DiscoveryBegin(1, limit, MaxTopN)
SelectExtraction == \E limit \in 1..MaxLimit : AllIdle /\ ExtractionBegin(1, limit)

NextSelect ==
    \/ SelectTriage
    \/ SelectDiscovery
    \/ SelectExtraction

SpecSelect == InitSelect /\ [][NextSelect]_vars
(***************************************************************************)
(* The jobs run again and again, as cron runs them: a job that has work is *)
(* started infinitely often, and a run that has started goes on to its     *)
(* end.  PubMed fails on every call made for one of the query texts.       *)
(***************************************************************************)
LiveQueries == {"oat  bran", "oat brann", "bread"}

\* the query text pubmed_search raises for on every call
BrokenQueries == {"oat brann"}

LiveCrossrefReplies == {ProviderHits(<<>>), ProviderHits(<<HitDoi>>)}

LivePubmedReply(query) ==
    IF query \in BrokenQueries THEN ProviderFailed ELSE ProviderHits(<<HitPmc>>)

LiveNetworks ==
    Networks({IdconvReply(Answers(200), TRUE, IdconvFound),
              IdconvReply(Unreachable, TRUE, <<>>)},
             {EfetchReply(Answers(200), XmlTables),
              EfetchReply(Unreachable, XmlProse)})

InitLive == InitDb(SeedDb)

LiveSearch == AllIdle /\ \E q \in LiveQueries : SearchFoodsEndpoint(q)
LiveDiscoveryStep ==
    /\ session[1].job = "discovery"
    /\ session[1].i <= Len(session[1].rows)
    /\ \E c \in LiveCrossrefReplies :
          DiscoveryRow(1, c, LivePubmedReply(
                                 failed_searches[session[1].rows[session[1].i]].query))
LiveExtractionStep == \E net \in LiveNetworks : ExtractionRow(1, net)

NextLive ==
    \/ LiveSearch
    \/ Triage
    \/ TriageEnd
    \/ Discovery
    \/ LiveDiscoveryStep
    \/ DiscoveryEnd
    \/ Extraction
    \/ LiveExtractionStep

\* a triage run that has started commits
TriageFinishes ==
    /\ session[1].job = "triage"
    /\ session' = [session EXCEPT ![1] = Idle]

\* an extraction run that has started goes to its next row or ends
ExtractionMoves ==
    /\ session[1].job = "extraction"
    /\ session' \in {[session EXCEPT ![1] = Idle],
                     [session EXCEPT ![1].i = session[1].i + 1]}

FairJobs ==
    /\ SF_vars(Triage) /\ WF_session(TriageFinishes)
    /\ SF_vars(Discovery) /\ WF_vars(LiveDiscoveryStep) /\ WF_vars(DiscoveryEnd)
    /\ SF_vars(Extraction) /\ WF_session(ExtractionMoves)

SpecLive == InitLive /\ [][NextLive]_vars /\ FairJobs


(***************************************************************************)
(* Properties.                                                             *)
(***************************************************************************)
TerminalStatuses == {"rejected", FAILED_STATUS_RESOLVED, FAILED_STATUS_NEEDS_REVIEW}

LifecycleEdges ==
    {<<"new", FAILED_READY_STATUS>>, <<"new", "rejected">>,
     <<FAILED_READY_STATUS, FAILED_DONE_STATUS>>,
     <<FAILED_STATUS_CANDIDATES_DONE, FAILED_STATUS_RESOLVED>>,
     <<FAILED_STATUS_CANDIDATES_DONE, FAILED_STATUS_NEEDS_REVIEW>>}

StatusStepAllowed ==
    /\ Len(failed_searches') >= Len(failed_searches)
    /\ \A i \in 1..Len(failed_searches) :
          \/ failed_searches'[i].status = failed_searches[i].status
          \/ <<failed_searches[i].status, failed_searches'[i].status>> \in LifecycleEdges
    /\ \A i \in (Len(failed_searches) + 1)..Len(failed_searches') :
          failed_searches'[i].status = "new"

\* C1: in sequential runs a row's status changes only along new -> queued,
\* new -> rejected, queued -> candidates_done, candidates_done -> resolved and
\* candidates_done -> needs_review; a rejected, resolved or needs_review row
\* keeps its status through every later job and every repeat log
C1_StatusLifecycle == [][StatusStepAllowed]_vars

\* a search has just been logged again on a row that was already resolved
C1_RepeatLogOfResolvedRow ==
    /\ last.op = "log"
    /\ last.id # 0
    /\ failed_searches[last.id].status = FAILED_STATUS_RESOLVED
    /\ failed_searches[last.id].seen_count = 2

StatusRank(status) ==
    CASE status = "new" -> 0
      [] status \in {FAILED_READY_STATUS, "rejected"} -> 1
      [] status = FAILED_DONE_STATUS -> 2
      [] OTHER -> 3

\* C2: with workers running jobs concurrently, the committed status of a row
\* never moves backward in the lifecycle
C2_StatusNeverBackward ==
    [][\A i \in 1..Len(failed_searches) :
          StatusRank(failed_searches'[i].status) >= StatusRank(failed_searches[i].status)]_vars

\* two stored candidates of one failed search the layered dedup key identifies
SameCandidate(a, b) ==
    /\ a.failed_search_id = b.failed_search_id
    /\ a.provider = b.provider
    /\ IF a.doi # None \/ b.doi # None THEN a.doi = b.doi
       ELSE IF a.url # None \/ b.url # None THEN a.url = b.url
       ELSE a.title = b.title /\ a.published_year = b.published_year

\* C3: at most one candidate is stored per (query, provider, DOI), else per
\* (query, provider, URL), else per (query, provider, title, year), and a hit
\* that repeats a key within one run is skipped without an error
C3_OneCandidatePerKey ==
    /\ \A i, j \in 1..Len(paper_candidates) :
          i < j => ~SameCandidate(paper_candidates[i], paper_candidates[j])
    /\ ~(last.aborted /\ last.cause = "integrity")

\* the facts of (food, acid name as stored)
FactsOf(tbl, food_id, acid) == FactsWithKey(tbl, food_id, Lower(Strip(acid)))

UpsertStepCorrect ==
    (last'.op = "upsert") =>
        LET old == FactsOf(food_amino_acids, last'.food_id, last'.amino_acid)
            new == FactsOf(food_amino_acids', last'.food_id, last'.amino_acid)
        IN  /\ Cardinality(new) = 1
            /\ \A i \in new :
                  /\ food_amino_acids'[i].amount_mg_per_100g = last'.amount
                  /\ food_amino_acids'[i].source_id = last'.source_id
                  /\ food_amino_acids'[i].confidence =
                        IF old = {} THEN last'.confidence
                        ELSE Max(food_amino_acids[First(old)].confidence, last'.confidence)
            /\ Len(food_amino_acids') = Len(food_amino_acids) + (IF old = {} THEN 1 ELSE 0)
            /\ ~UniqueFactViolated(food_amino_acids')

\* C4: crud.upsert_food_amino_acid overwrites amount and source of the stored
\* fact of (food, trimmed lower-case acid name) and raises its confidence to
\* the maximum of stored and new, inserts the fact when there is none, and
\* leaves at most one fact per (food, acid)
C4_UpsertKeepsMaxConfidence == [][UpsertStepCorrect]_vars

\* an upsert under an unnormalized name has just met a fact of higher confidence
C4_UpsertMetHigherConfidence ==
    /\ last.op = "upsert"
    /\ last.amino_acid # Lower(Strip(last.amino_acid))
    /\ \E i \in FactsOf(food_amino_acids, last.food_id, last.amino_acid) :
          /\ food_amino_acids[i].confidence > last.confidence
          /\ food_amino_acids[i].amount_mg_per_100g = last.amount

\* C5: whichever writer touches it (paper fusion, USDA bulk ingest, CSV
\* ingest), the confidence of a stored fact never decreases
C5_ConfidenceNeverDecreases ==
    [][\A i \in 1..Len(food_amino_acids) :
          food_amino_acids'[i].confidence >= food_amino_acids[i].confidence]_vars

OneRowPerText ==
    /\ \A i \in 1..Len(failed_searches) :
          /\ failed_searches[i].normalized_query \in DOMAIN logged
          /\ RowsWithNorm(failed_searches, failed_searches[i].normalized_query) = {i}
    /\ \A norm \in DOMAIN logged :
          /\ Len(norm) >= 2
          /\ \E i \in 1..Len(failed_searches) :
                /\ failed_searches[i].normalized_query = norm
                /\ failed_searches[i].seen_count = logged[norm]

LogStepCorrect ==
    (clock' = clock + 1) =>
        /\ \A i \in 1..Len(failed_searches) :
              /\ failed_searches'[i].status = failed_searches[i].status
              /\ failed_searches'[i].nlp_label = failed_searches[i].nlp_label
              /\ failed_searches'[i].nlp_score = failed_searches[i].nlp_score
              /\ failed_searches'[i].note = failed_searches[i].note
              /\ failed_searches'[i].seen_count \in
                    {failed_searches[i].seen_count, failed_searches[i].seen_count + 1}
        /\ \A i \in (Len(failed_searches) + 1)..Len(failed_searches') :
              /\ failed_searches'[i].status = "new"
              /\ failed_searches'[i].seen_count = 1

\* C6: sequential log_failed_search calls keep one row per normalized text
\* whose count is the number of accepted calls (normalized length >= 2); the
\* first call inserts the row with status new and count 1, later calls only
\* raise the count and refresh last-seen, leaving status, label, score and note
C6_OneCountedRowPerText == [](OneRowPerText) /\ [][LogStepCorrect]_vars

\* a text has just been logged a second time on a row triage had judged
C6_RepeatLogOfJudgedRow ==
    /\ last.op = "log"
    /\ last.id # 0
    /\ failed_searches[last.id].seen_count = 2
    /\ failed_searches[last.id].last_seen_at = clock
    /\ failed_searches[last.id].nlp_label # None
    /\ failed_searches[last.id].query # failed_searches[last.id].normalized_query

\* C7: the second of two fetches with the same (title, url, doi) makes no
\* network request and returns the document the first returned: the same
\* identifiers, full text and warnings
C7_RepeatFetchReturnsSame ==
    (last_fetch.prev # <<>>) =>
        /\ last_fetch.hit
        /\ last_fetch.idconv_requests + last_fetch.efetch_requests = 0
        /\ last_fetch.doc = last_fetch.prev

HasWarning(doc, prefix) ==
    \E k \in 1..Len(doc.warnings) : StartsWith(doc.warnings[k], prefix)

\* C8: a failed identifier resolution or full-text request ends as a warning
\* on the returned document, and a freshly fetched document without full text
\* carries at least one warning
C8_FailuresBecomeWarnings ==
    (last_fetch.doc # <<>> /\ ~last_fetch.hit) =>
        /\ last_fetch.idconv_failed => HasWarning(last_fetch.doc[1], "idconv")
        /\ last_fetch.efetch_failed => HasWarning(last_fetch.doc[1], "pmc_xml")
        /\ last_fetch.doc[1].pmc_xml = <<>> => last_fetch.doc[1].warnings # <<>>

\* a fresh fetch whose full-text request failed after the identifiers resolved
C8_FullTextRequestFailed ==
    /\ last_fetch.doc # <<>>
    /\ ~last_fetch.hit
    /\ last_fetch.idconv_requests > 0
    /\ ~last_fetch.idconv_failed
    /\ last_fetch.efetch_failed
    /\ last_fetch.doc[1].pmc_xml = <<>>

\* C9: a provider or network failure while a job processes a row never ends
\* the batch; the job goes on and commits
C9_ProviderFailureAbsorbed == ~(last.aborted /\ last.cause = "provider")

\* C10: a needs_review row carries the non-empty note the extraction step set
\* when it moved the row there, not the note triage left
C10_ReviewRowsCarryReason ==
    \A i \in 1..Len(failed_searches) :
        failed_searches[i].status = FAILED_STATUS_NEEDS_REVIEW =>
            /\ Truthy(failed_searches[i].note)
            /\ ~StartsWith(failed_searches[i].note, "NLP: ")

\* rows sent to review for want of candidates and for want of full text
C10_RowsInReview ==
    /\ \E i \in 1..Len(failed_searches) :
          /\ failed_searches[i].status = FAILED_STATUS_NEEDS_REVIEW
          /\ failed_searches[i].note = "no paper candidates available"
    /\ \E i \in 1..Len(failed_searches) :
          /\ failed_searches[i].status = FAILED_STATUS_NEEDS_REVIEW
          /\ HasWarning([warnings |-> <<failed_searches[i].note>>], "idconv")

\* the document the cache holds after the fetch for candidate c
FetchedFiles(c) ==
    CacheFiles(cache', cached_DerivedIds(paper_candidates[c].title,
                                         OrElse(paper_candidates[c].url, ""),
                                         paper_candidates[c].doi).key)

\* every extracted row is stored for food f under source s with the
\* confidence an upsert at 0.7 leaves
FactsWritten(f, s, extracted) ==
    \A k \in 1..Len(extracted) :
        \E j \in FactsWithKey(food_amino_acids', f, extracted[k].amino_acid) :
            /\ food_amino_acids'[j].source_id = s
            /\ \E m \in 1..Len(extracted) :
                  /\ extracted[m].amino_acid = extracted[k].amino_acid
                  /\ food_amino_acids'[j].amount_mg_per_100g = extracted[m].amount_mg_per_100g
            /\ food_amino_acids'[j].confidence =
                  IF FactsWithKey(food_amino_acids, f, extracted[k].amino_acid) = {}
                  THEN PAPER_CONFIDENCE
                  ELSE Max(food_amino_acids[First(FactsWithKey(food_amino_acids, f,
                               extracted[k].amino_acid))].confidence, PAPER_CONFIDENCE)

\* row i was resolved from the full text of its top candidate, for the one
\* food its query names, under the publication source of the candidate's URL
ResolvedFromPaper(i) ==
    \E c \in TopCandidates(paper_candidates, i) :
        /\ FetchedFiles(c).xml # <<>>
        /\ cached_extract_amino_tables(read_text(FetchedFiles(c).xml[1])) # <<>>
        /\ Cardinality(FoodsMatching(foods, failed_searches[i].query)) = 1
        /\ Cardinality(PublicationsWithUrl(sources', OrElse(paper_candidates[c].url, ""))) = 1
        /\ Len(sources') \in {Len(sources), Len(sources) + 1}
        /\ FactsWritten(First(FoodsMatching(foods, failed_searches[i].query)),
                        First(PublicationsWithUrl(sources', OrElse(paper_candidates[c].url, ""))),
                        cached_extract_amino_tables(read_text(FetchedFiles(c).xml[1])))

StoreUntouched ==
    /\ sources' = sources
    /\ foods' = foods
    /\ food_amino_acids' = food_amino_acids

\* what an extraction pass may do to the row it processes
ExtractionPassRight ==
    \A i \in 1..Len(failed_searches) :
        (/\ failed_searches[i].status = FAILED_STATUS_CANDIDATES_DONE
         /\ failed_searches'[i].status # FAILED_STATUS_CANDIDATES_DONE) =>
            IF failed_searches'[i].status = FAILED_STATUS_RESOLVED
            THEN ResolvedFromPaper(i)
            ELSE /\ failed_searches'[i].status = FAILED_STATUS_NEEDS_REVIEW
                 /\ StoreUntouched

\* an extraction pass that ended in an exception instead of a status
ExtractionPassRaised ==
    /\ last'.op = "extraction"
    /\ last'.aborted
    /\ last' # last

\* C11: extraction resolves a row only when its top candidate yielded full
\* text, rows were extracted and a food matched, writing the publication
\* source and every fact at confidence 0.7 in that step; in every other case
\* the row goes to needs_review and nothing is written for it
C11_ResolvedOnlyWithFacts ==
    [][ExtractionPassRight /\ ~ExtractionPassRaised]_vars

\* schemas.ESSENTIAL_AMINO_ACIDS: the nine tracked amino acids
ESSENTIAL_AMINO_ACIDS ==
    {"histidine", "isoleucine", "leucine", "lysine", "methionine", "phenylalanine",
     "threonine", "tryptophan", "valine"}

\* the essential amino acids food f has a fact for
EssentialPresent(tbl, f) == {a \in ESSENTIAL_AMINO_ACIDS : FactsWithKey(tbl, f, a) # {}}

CoverageRight(catalog, tbl, f) ==
    /\ catalog[f].essential_aa_present_count = Cardinality(EssentialPresent(tbl, f))
    /\ catalog[f].essential_aa_present_count <= catalog[f].essential_aa_total
    /\ catalog[f].amino_data_incomplete =
          (catalog[f].essential_aa_present_count < catalog[f].essential_aa_total)

\* C12: when extraction resolves a row, the matched food's present-count is
\* the number of the nine essential amino acids it has a fact for, at most the
\* tracked total, and its incomplete flag says whether the count is below it
C12_CoverageCountsEssentialFacts ==
    [][\A i \in 1..Len(failed_searches) :
          (/\ failed_searches[i].status = FAILED_STATUS_CANDIDATES_DONE
           /\ failed_searches'[i].status = FAILED_STATUS_RESOLVED) =>
              \A f \in FoodsMatching(foods, failed_searches[i].query) :
                  CoverageRight(foods', food_amino_acids', f)]_vars

\* a call that found one row left it with its populated fields, filled the
\* empty ones that were supplied, and added no row
BackfillRight ==
    (last'.op = "publication" /\ PublicationsWithUrl(sources, last'.source_url) # {}) =>
        /\ Len(sources') = Len(sources)
        /\ \A i \in 1..Len(sources) :
              IF i \in PublicationsWithUrl(sources, last'.source_url) /\ ~last'.raised
              THEN /\ last'.id = i
                   /\ sources'[i].source_type = sources[i].source_type
                   /\ sources'[i].source_url = sources[i].source_url
                   /\ sources'[i].source_name =
                         IF ~Truthy(sources[i].source_name) /\ Truthy(last'.source_name)
                         THEN last'.source_name ELSE sources[i].source_name
                   /\ sources'[i].citation_text =
                         IF ~Truthy(sources[i].citation_text) /\ Truthy(last'.citation_text)
                         THEN last'.citation_text ELSE sources[i].citation_text
                   /\ sources'[i].version =
                         IF ~Truthy(sources[i].version) /\ Truthy(last'.version)
                         THEN last'.version ELSE sources[i].version
              ELSE sources'[i] = sources[i]

\* C13: get_or_create_publication_source on a URL that has a publication
\* source keeps every populated name, citation and version, fills only the
\* empty ones that are supplied non-empty, keeps type and URL, adds no row
C13_BackfillOnlyEmptyFields == [][BackfillRight]_vars

\* a call has just found a row with a name and no citation, and was given
\* another name and a citation
C13_FoundRowPartlyFilled ==
    /\ last.op = "publication"
    /\ ~last.raised
    /\ last.found # <<>>
    /\ Truthy(last.found[1].source_name)
    /\ Truthy(last.source_name)
    /\ last.source_name # last.found[1].source_name
    /\ ~Truthy(last.found[1].citation_text)
    /\ Truthy(last.citation_text)
    /\ sources[last.id].citation_text = last.citation_text

\* C14: calls of get_or_create_publication_source with one URL leave exactly
\* one publication source for it and return that row every time, for URLs of
\* any length
C14_OneSourcePerUrl ==
    (last.op = "publication") =>
        /\ ~last.raised
        /\ Cardinality(Returned[last.source_url]) = 1
        /\ Cardinality({i \in 1..Len(sources) :
                            /\ sources[i].source_type = "publication"
                            /\ sources[i].source_url = Prefix(last.source_url, 500)}) = 1

\* the score score_hit gives the hit at position i of the list just ranked
RankedScore(i) == cached_score_hit(last.hits[i], last.query)

\* the orders a stable descending sort can give the positions of last.hits:
\* higher score first, equal scores in input order
RankOrders ==
    LET n == Len(last.hits)
    IN  {p \in [1..n -> 1..n] :
            /\ \A k, l \in 1..n : k # l => p[k] # p[l]
            /\ \A k, l \in 1..n :
                   k < l => \/ RankedScore(p[k]) > RankedScore(p[l])
                            \/ RankedScore(p[k]) = RankedScore(p[l]) /\ p[k] < p[l]}

\* C15: rank_hits(hits, query, top_n) with top_n >= 0 returns min(top_n,
\* number of hits) scored hits in non-increasing score order; each is an input
\* hit with the score score_hit gives it, no omitted hit scores strictly
\* higher than a returned one, hits of equal score keep their input order
C15_RankHitsTopNStable ==
    (last.op = "rank") =>
        /\ Len(last.ranked) = Min(last.top_n, Len(last.hits))
        /\ \A k \in 1..(Len(last.ranked) - 1) :
               last.ranked[k].score >= last.ranked[k + 1].score
        /\ \E p \in RankOrders :
               \A k \in 1..Len(last.ranked) :
                   /\ last.ranked[k].hit = last.hits[p[k]]
                   /\ last.ranked[k].score = RankedScore(p[k])

\* three hits were ranked and two were asked for; the two returned are
\* different hits of equal score and the third scores lower
C15_RankedTieCut ==
    /\ last.op = "rank"
    /\ Len(last.hits) = 3
    /\ last.top_n = 2
    /\ Len(last.ranked) = 2
    /\ last.ranked[1].hit # last.ranked[2].hit
    /\ last.ranked[1].score = last.ranked[2].score
    /\ \E i \in 1..3 : RankedScore(i) < last.ranked[2].score

\* the hits whose title reports measured values and is not tagged, and those
\* whose title carries the review tag
MeasuredHits ==
    {h \in RankPool : /\ Contains(_normalize_text(h.title), "mg/100g")
                      /\ Contains(_normalize_text(h.title), "amino acid composition")
                      /\ ~Contains(_normalize_text(h.title), "systematic review")}
ReviewHits == {h \in RankPool : Contains(_normalize_text(h.title), "systematic review")}

\* g is h with another title
OtherwiseIdentical(h, g) == g = [h EXCEPT !.title = g.title]

\* C16: for one query and one provider, a hit whose title contains "mg/100g"
\* and "amino acid composition" scores strictly higher than the hit that
\* differs from it in the title only and is tagged "systematic review", and
\* rank_hits puts it in front of that hit
C16_MeasuredOutranksReview ==
    (last.op = "rank") =>
        \A i, j \in 1..Len(last.hits) :
            (/\ last.hits[i] \in MeasuredHits
             /\ last.hits[j] \in ReviewHits
             /\ OtherwiseIdentical(last.hits[i], last.hits[j])) =>
                /\ RankedScore(i) > RankedScore(j)
                /\ \A k \in 1..Len(last.ranked) :
                       last.ranked[k].hit = last.hits[j] =>
                           \E l \in 1..(k - 1) : last.ranked[l].hit = last.hits[i]

\* the review was listed first and shares three words with the query; the
\* measured hit of the same subject and provider is the one returned
C16_ReviewListedFirst ==
    /\ last.op = "rank"
    /\ last.query = "systematic review of rye"
    /\ last.top_n = 1
    /\ last.hits = <<RankHit("pubmed", ReviewTitle("Rye")),
                     RankHit("pubmed", MeasuredTitle("Rye"))>>
    /\ last.ranked[1].hit = RankHit("pubmed", MeasuredTitle("Rye"))

\* the highest similarity any catalog food has with the text, and the names
\* of the foods that have it
BestSimilarity(catalog, norm) ==
    LET sims == {cached_similarity(catalog[i].name, norm) : i \in 1..Len(catalog)} \cup {0}
    IN  CHOOSE m \in sims : \A n \in sims : m >= n
BestMatchNames(catalog, norm) ==
    {catalog[i].name : i \in {j \in 1..Len(catalog) :
        cached_similarity(catalog[j].name, norm) = BestSimilarity(catalog, norm)}}

\* row i leaves "new" in this step and its query passes the hard rejects
TriagedBySimilarity(i) ==
    /\ failed_searches[i].status = "new"
    /\ failed_searches'[i].status # "new"
    /\ HardRejects(cached__normalize(failed_searches[i].query)) = <<>>

\* such a row is queued with label food when the best similarity reaches the
\* threshold and rejected with label junk otherwise; score and note are stored
TriageMovesBySimilarity ==
    \A i \in 1..Len(failed_searches) :
        TriagedBySimilarity(i) =>
            /\ failed_searches'[i].status =
                  IF BestSimilarity(foods, cached__normalize(failed_searches[i].query))
                        >= DB_TRGM_THRESHOLD
                  THEN "queued" ELSE "rejected"
            /\ failed_searches'[i].nlp_label =
                  IF failed_searches'[i].status = "queued" THEN "food" ELSE "junk"
            /\ failed_searches'[i].nlp_score # <<>>
            /\ StartsWith(failed_searches'[i].note, "NLP: ")

\* the note of such a row names a food of the best similarity, when any food
\* is similar at all
TriageNoteNamesBestMatch ==
    \A i \in 1..Len(failed_searches) :
        (/\ TriagedBySimilarity(i)
         /\ BestSimilarity(foods, cached__normalize(failed_searches[i].query)) > 0) =>
            \E name \in BestMatchNames(foods, cached__normalize(failed_searches[i].query)) :
                Contains(failed_searches'[i].note, name)

\* a rejected row has label junk, a row at queued or beyond has label food
LabelsMatchStatus ==
    \A i \in 1..Len(failed_searches) :
        /\ failed_searches[i].status = "rejected" => failed_searches[i].nlp_label = "junk"
        /\ failed_searches[i].status \notin {"new", "rejected"} =>
              failed_searches[i].nlp_label = "food"

\* C17: a triage run moves a row whose query passes the hard rejects to queued
\* exactly when the best catalog similarity is >= 0.30 (label food) and to
\* rejected otherwise (label junk), storing label, score and an "NLP: ..."
\* note that carries the best match name; so a rejected row has label junk
\* and a row at queued or beyond has label food
C17_TriageBySimilarity ==
    /\ [][TriageMovesBySimilarity /\ TriageNoteNamesBestMatch]_vars
    /\ []LabelsMatchStatus

JunkWithoutLookup(reason) ==
    /\ last.res = [label |-> "junk", score |-> 0, reason |-> reason]
    /\ last.lookups = 0

\* C18: classify_query returns junk with score 0 without a similarity query
\* for an input whose normalized form is empty (reason "empty"), has one or
\* two characters (reason "too_short") or is all digits (reason "digits_only",
\* or "too_short" when it has one or two digits)
C18_EmptyShortDigitsRejected ==
    (last.op = "classify") =>
        /\ _normalize(last.q) = "" => JunkWithoutLookup("empty")
        /\ Len(_normalize(last.q)) \in {1, 2} => JunkWithoutLookup("too_short")
        /\ (IsDigitStr(_normalize(last.q)) /\ Len(_normalize(last.q)) >= 3) =>
              JunkWithoutLookup("digits_only")

\* "12345" was classified against a catalog with foods
C18_DigitsClassified ==
    /\ last.op = "classify"
    /\ last.q = "12345"
    /\ last.res.reason = "digits_only"
    /\ foods # <<>>

\* C19: classify_query returns junk with score 0 without a similarity query
\* for every input containing "http://", "https://" or "www.", whatever the
\* catalog holds
C19_UrlsRejected ==
    (last.op = "classify" /\ last.q # None /\ UrlSearch(last.q)) =>
        /\ last.res.label = "junk"
        /\ last.res.score = 0
        /\ last.lookups = 0

\* the step is a call with a text whose normalized form has fewer than 2
\* characters
ShortLogCall ==
    /\ clock' = clock + 1
    /\ last'.op = "log_call"
    /\ Len(normalize_query(last'.query)) < 2

\* C20: log_failed_search with a text whose normalized form is shorter than 2
\* characters returns None and leaves the store as it was: no row inserted,
\* no counter raised, no timestamp refreshed
C20_ShortTextNotLogged ==
    [][ShortLogCall => (last'.returned = 0 /\ failed_searches' = failed_searches)]_vars

\* a one-character text has just been handed in while the store held a row
C20_ShortTextOnStoredRows ==
    /\ last.op = "log_call"
    /\ last.query = " x"
    /\ last.returned = 0
    /\ failed_searches # <<>>

\* C21: normalize_query(normalize_query(x)) = normalize_query(x) for every
\* text x, and normalize_query(x) is lowercase, has no leading or trailing
\* whitespace and has single spaces between its words
C21_NormalizeIdempotent ==
    (last.op = "normalize") =>
        /\ last.twice = last.once
        /\ \A i \in 1..Len(last.once) :
              /\ Char(last.once, i) \notin Chars(UpperLetters)
              /\ Char(last.once, i) \notin {"\t", "\n"}
              /\ Char(last.once, i) = " " =>
                    /\ i \notin {1, Len(last.once)}
                    /\ Char(last.once, i + 1) # " "

\* a text in mixed case with blanks in front, behind and repeated inside has
\* been normalized
C21_MixedTextNormalized ==
    /\ last.op = "normalize"
    /\ last.x = " B\t a "
    /\ last.once = "b a"

\* the factor of each unit, written with a slash and written with "per"
SlashFactor == [u \in {"mg/100g", "g/100g", "mg/g", "g/kg"} |->
                   CASE u = "mg/100g" -> 1 [] u = "g/100g" -> 1000 [] OTHER -> 100]
PerFactor == [u \in {"mgper100g", "gper100g", "mgperg", "gperkg"} |->
                 CASE u = "mgper100g" -> 1 [] u = "gper100g" -> 1000 [] OTHER -> 100]

\* the unit of the last call in lower case without its blanks
UnitKey == RemoveSpaces(Lower(last.units))

\* C22 as stated: normalize_to_mg_per_100g multiplies by 1 for mg/100g, 1000
\* for g/100g, 100 for mg/g and 100 for g/kg, whatever the letter case and
\* the blanks of the unit, and returns None for every other unit
C22_NoneForOtherUnits ==
    (last.op = "units") =>
        last.out = IF UnitKey \in DOMAIN SlashFactor
                   THEN <<last.amount * SlashFactor[UnitKey]>>
                   ELSE <<>>

\* C22, amended: the same, the four units also being accepted when written
\* with "per" for the slash; None for every other unit, mg/kg and g/g
\* included
C22_FactorPerUnit ==
    (last.op = "units") =>
        last.out = IF UnitKey \in DOMAIN SlashFactor
                   THEN <<last.amount * SlashFactor[UnitKey]>>
                   ELSE IF UnitKey \in DOMAIN PerFactor
                   THEN <<last.amount * PerFactor[UnitKey]>>
                   ELSE <<>>

\* 2.4 g/100 g has been converted to 2400
C22_GramsConverted ==
    /\ last.op = "units"
    /\ last.amount = 24
    /\ last.units = "g/100 g"
    /\ last.out = <<24000>>

\* the aliases of a canonical acid
AliasesOf(canonical) ==
    (CHOOSE a \in Range(AMINO_ALIASES) : a.canonical = canonical).aliases

\* the alias stands in the text as a word of its own
NamedBy(text, alias) ==
    \E i \in 1..(Len(text) - Len(alias) + 1) :
        /\ SubSeq(text, i, i + Len(alias) - 1) = alias
        /\ BoundaryAt(text, i - 1)
        /\ BoundaryAt(text, i + Len(alias) - 1)

\* C23: every fact extract_amino_tables_from_pmc_xml emits from a row is for
\* an acid that the row names, one of its aliases standing in the row text as
\* a word of its own and not inside another word or another acid's name; a
\* row that names no acid yields no fact
C23_FactsOnlyForNamedAcids ==
    (last.op = "rows") =>
        \A i \in 1..Len(last.out) :
            \E alias \in AliasesOf(last.out[i].amino_acid) :
                NamedBy(RowText(last.row), alias)

\* a worker's discovery run ends with this step: its commit
DiscoveryCommits(w) ==
    /\ session[w].job = "discovery"
    /\ session[w].i > Len(session[w].rows)
    /\ session'[w].job = "idle"

\* C24: when two discovery workers process the same queued row concurrently,
\* each commit leaves no two stored candidates with the same dedup key and
\* neither worker's batch fails
C24_ConcurrentDiscoveryDeduplicated ==
    [][\A w \in Workers :
          DiscoveryCommits(w) =>
              /\ ~(last'.aborted /\ last'.cause = "integrity")
              /\ \A i, j \in 1..Len(paper_candidates') :
                    i < j => ~SameCandidate(paper_candidates'[i], paper_candidates'[j])]_vars

\* C25: when requests log the same normalized text concurrently, no request
\* fails, and once all have committed there is a single row per text whose
\* count is the number of logs
C25_ConcurrentLogsCounted ==
    /\ [][\A w \in Workers :
             (session[w].job = "log" /\ session'[w].job = "idle") => ~last'.aborted]_vars
    /\ [](AllIdle => OneRowPerText)

\* the coverage fields of food f are the ones recomputed from the stored facts
CoverageMatchesFacts(catalog, facts, f) ==
    /\ catalog[f].essential_aa_present_count = FactCount(facts, f)
    /\ catalog[f].amino_data_incomplete = (FactCount(facts, f) < catalog[f].essential_aa_total)

\* worker w commits a row it resolved
ResolvingCommit(w) ==
    /\ session[w].job = "extraction"
    /\ session[w].added # <<>>
    /\ failed_searches'[session[w].rows[session[w].i]].status = FAILED_STATUS_RESOLVED

\* the foods whose facts a session wrote
WrittenFoods(writes) ==
    {f \in 1..Len(writes.out.foods) :
        \E i \in 1..Len(writes.out.food_amino_acids) :
            /\ writes.out.food_amino_acids[i].food_id = f
            /\ (i > Len(writes.seen.food_amino_acids)
                \/ writes.out.food_amino_acids[i] # writes.seen.food_amino_acids[i])}

\* C26: when extraction workers write facts for the same food concurrently,
\* every commit of a resolved row leaves the food's present-count and
\* incomplete flag equal to the values recomputed from the facts then stored:
\* no worker commits a count that omits the other's facts
C26_CoverageMatchesStoredFacts ==
    [][\A w \in Workers :
          ResolvingCommit(w) =>
              \A f \in WrittenFoods(session[w].added[1]) :
                  CoverageMatchesFacts(foods', food_amino_acids', f)]_vars

\* worker w ends a discovery run in which every provider call returned
DiscoveryRunEnds(w) ==
    /\ session[w].job = "discovery"
    /\ session'[w].job = "idle"
    /\ ~(last'.aborted /\ last'.cause = "provider")

\* worker w's extraction run handles a row that has no candidate
ExtractsRowWithoutCandidate(w) ==
    /\ session[w].job = "extraction"
    /\ session'[w] # session[w]
    /\ TopCandidates(paper_candidates, session[w].rows[session[w].i]) = {}

\* the rows of a discovery run are candidates_done when it ends
SelectedRowsDone ==
    \A w \in Workers :
        DiscoveryRunEnds(w) =>
            \A j \in 1..Len(session[w].rows) :
                failed_searches'[session[w].rows[j]].status = "candidates_done"

\* a row without candidates goes to review with its reason
NoCandidateRowsReviewed ==
    \A w \in Workers :
        ExtractsRowWithoutCandidate(w) =>
            /\ failed_searches'[session[w].rows[session[w].i]].status = "needs_review"
            /\ failed_searches'[session[w].rows[session[w].i]].note =
                   "no paper candidates available"

\* C27: every queued row selected by a discovery run ends that run
\* as candidates_done, whatever number of hits the providers returned and
\* whether or not a candidate was inserted, and the extraction stage moves a
\* row left without candidates to needs_review with the reason
\* "no paper candidates available"
C27_DiscoveredRowsCandidatesDone ==
    [][SelectedRowsDone /\ NoCandidateRowsReviewed]_vars

\* the extraction run of worker w fails on the row it is at
ExtractionFails(w) ==
    /\ session[w].job = "extraction"
    /\ session'[w].job = "idle"
    /\ last'.aborted
    /\ last'.op = "extraction"

\* C28: when the extraction job fails on the k-th row of its batch, what rows
\* 1..k-1 left (status, note, facts, source, coverage) stays committed, no
\* write of row k is persisted, and row k and the rows behind it are still
\* candidates_done
C28_FailureKeepsEarlierRows ==
    [][\A w \in Workers :
          ExtractionFails(w) =>
              /\ failed_searches' = failed_searches
              /\ sources' = sources
              /\ foods' = foods
              /\ food_amino_acids' = food_amino_acids
              /\ \A j \in 1..(session[w].i - 1) :
                    failed_searches'[session[w].rows[j]].status
                        \in {"resolved", "needs_review"}
              /\ \A j \in session[w].i..Len(session[w].rows) :
                    failed_searches'[session[w].rows[j]].status = "candidates_done"]_vars

\* a run has failed on the second row of its batch after committing the first
C28_FailedOnSecondRow ==
    /\ last.aborted
    /\ last.op = "extraction"
    /\ Len(last.rows) = 2
    /\ last.id = last.rows[2]
    /\ failed_searches[last.rows[1]].status \in {"resolved", "needs_review"}
    /\ failed_searches[last.rows[2]].status = "candidates_done"

\* row b has priority over row a: the higher count, then the later last-seen
HigherPriority(tbl, b, a) ==
    \/ tbl[b].seen_count > tbl[a].seen_count
    \/ /\ tbl[b].seen_count = tbl[a].seen_count
       /\ tbl[b].last_seen_at > tbl[a].last_seen_at

\* the rows a job starting in this step could have taken
Eligible(job) == {i \in 1..Len(failed_searches) : failed_searches[i].status = InputStatus(job)}

\* C29: in each of the three stages the rows selected are those with the
\* highest occurrence count, ties broken by the most recent last-seen time:
\* no row left behind has priority over a row selected
C29_BatchTakesHighestPriority ==
    [][\A w \in Workers :
          (session[w].job = "idle" /\ session'[w].job # "idle") =>
              \A a \in Range(session'[w].rows) :
                  \A b \in Eligible(session'[w].job) \ Range(session'[w].rows) :
                      ~HigherPriority(failed_searches, b, a)]_vars

\* a try that _http_get does not accept: an exception or a transient status
RetriedTry(attempt) == attempt.exc \/ attempt.status \in {429, 500, 502, 503, 504}

\* the tries of the call up to and including the first accepted one
TriesMade(attempts) ==
    IF \A k \in 1..3 : RetriedTry(attempts[k]) THEN 3
    ELSE CHOOSE n \in 1..3 :
             /\ ~RetriedTry(attempts[n])
             /\ \A k \in 1..(n - 1) : RetriedTry(attempts[k])

\* C30: _http_get issues at most 3 requests; it returns the first response
\* whose status is not 429/500/502/503/504 and tries no further; after a
\* transient status or an exception it sleeps attempt x base; it raises
\* exactly when every try ended in a transient status or an exception
C30_GetRetriesTransientOnly ==
    (last.op = "get") =>
        /\ last.out.tries = TriesMade(last.attempts)
        /\ last.out.tries <= 3
        /\ last.out.raised <=> \A k \in 1..3 : RetriedTry(last.attempts[k])
        /\ ~last.out.raised =>
               last.out.status = last.attempts[last.out.tries].status
        /\ last.out.slept =
               [k \in 1..(IF last.out.raised THEN 3 ELSE last.out.tries - 1) |->
                    k * HTTP_BACKOFF_TENTHS]

\* a 503, then an exception, then a 404 returned after sleeps of 1.5 s and 3 s
C30_ReturnedOnThirdTry ==
    /\ last.op = "get"
    /\ last.attempts = <<Attempt(FALSE, 503), Attempt(TRUE, 0), Attempt(FALSE, 404)>>
    /\ last.out = [raised |-> FALSE, status |-> 404, tries |-> 3, slept |-> <<15, 30>>]

\* the metadata file of the entry is there and does not parse
Corrupted(c, key) ==
    /\ CacheFiles(c, key).meta # <<>>
    /\ ~CacheFiles(c, key).meta[1].valid

\* C31: a fetch that finds a corrupted entry gets no hit, returns a document
\* and rewrites the entry; the next fetch for the key is a hit that returns
\* the document the rewriting fetch returned, identifiers, warnings and full
\* text or its absence
C31_CorruptEntryReplaced ==
    [][\A inp \in DirectFetchInputs :
          (last_fetch' # last_fetch /\ last_fetch'.inputs = <<inp>>) =>
              /\ Corrupted(cache, KeyOf(inp)) =>
                     /\ ~last_fetch'.hit
                     /\ ~Corrupted(cache', KeyOf(inp))
                     /\ _read_cache(cache', KeyOf(inp)) # <<>>
              /\ (inp \in DOMAIN fetched) =>
                     /\ last_fetch'.hit
                     /\ last_fetch'.doc = <<fetched[inp]>>]_vars

\* the status a stage takes its rows from
StageInput(job) ==
    CASE job = "triage" -> "new"
      [] job = "discovery" -> "queued"
      [] job = "extraction" -> "candidates_done"
      [] OTHER -> None

StageJobs == {"triage", "discovery", "extraction"}

\* the worker's run SELECTs its batch in this step
RunSelects(w) == session[w].job = "idle" /\ session'[w].job \in StageJobs

\* C32: a run selects at most `limit` rows, all in the input status of its
\* stage; while it runs, only selected rows change, every row it writes
\* leaves the input status, so that the next run of the stage does not take
\* it again; with no eligible row no run starts and, no run being under way,
\* no candidate, source or fact changes and no row changes its status
C32_RunChangesOnlyItsBatch ==
    [][/\ \A w \in Workers :
             RunSelects(w) =>
                 /\ session'[w].rows # <<>>
                 /\ Len(session'[w].rows) <= session'[w].limit
                 /\ \A k \in Range(session'[w].rows) :
                        failed_searches[k].status = StageInput(session'[w].job)
                 /\ UNCHANGED <<failed_searches, paper_candidates, sources,
                                food_amino_acids>>
       /\ \A k \in 1..Len(failed_searches) :
             (failed_searches'[k].status # failed_searches[k].status) =>
                 \E w \in Workers :
                     /\ session[w].job \in StageJobs
                     /\ k \in Range(session[w].rows)
                     /\ failed_searches'[k].status # StageInput(session[w].job)
       /\ \A w \in Workers :
             (session[w].job \in StageJobs) =>
                 /\ Len(failed_searches') = Len(failed_searches)
                 /\ \A k \in 1..Len(failed_searches) \ Range(session[w].rows) :
                        failed_searches'[k] = failed_searches[k]
       /\ AllIdle => UNCHANGED <<paper_candidates, sources, food_amino_acids>>]_vars

\* a discovery run with limit 1 has gone through its one row and is about
\* to commit, a second queued row not being part of its batch
C32_BatchOfOneOfTwo ==
    /\ session[1].job = "discovery"
    /\ session[1].limit = 1
    /\ session[1].i = 2
    /\ session[1].added # <<>>
    /\ \E k \in 1..Len(failed_searches) \ Range(session[1].rows) :
           failed_searches[k].status = "queued"

\* the order of the steps of a fetch
StepOrder == <<"read_cache", "idconv", "efetch", "write_cache">>

StepIndex(step) == CHOOSE k \in 1..Len(StepOrder) : StepOrder[k] = step

\* the identifiers derived from the inputs of the last fetch
InputIds ==
    cached_DerivedIds(last_fetch.inputs[1][1], last_fetch.inputs[1][2],
                      last_fetch.inputs[1][3])

\* C33: on a cache miss the identifier resolution service is contacted exactly
\* when no PMC identifier was derived from the inputs and a DOI or PMID is
\* known; the full-text service is contacted after it, exactly when a PMC
\* identifier is then known; without one the document has no full text and
\* carries the 'no PMCID' warning; the cache write comes last
C33_RetrievalStepsInOrder ==
    (last_fetch.doc # <<>> /\ ~last_fetch.hit) =>
        /\ ("idconv" \in Range(last_fetch.calls)) <=>
               /\ ~Truthy(InputIds.pmcid)
               /\ Truthy(InputIds.doi) \/ Truthy(InputIds.pmid)
        /\ (last_fetch.idconv_requests > 0) <=> ("idconv" \in Range(last_fetch.calls))
        /\ ("efetch" \in Range(last_fetch.calls)) <=> Truthy(last_fetch.doc[1].pmcid)
        /\ (last_fetch.efetch_requests > 0) <=> ("efetch" \in Range(last_fetch.calls))
        /\ ~Truthy(last_fetch.doc[1].pmcid) =>
               /\ last_fetch.doc[1].pmc_xml = <<>>
               /\ HasWarning(last_fetch.doc[1], "no PMCID")
        /\ \A i, j \in 1..Len(last_fetch.calls) :
               i < j => StepIndex(last_fetch.calls[i]) < StepIndex(last_fetch.calls[j])
        /\ last_fetch.calls[1] = "read_cache"
        /\ last_fetch.calls[Len(last_fetch.calls)] = "write_cache"
        /\ _read_cache(cache, InputIds.key) # <<>>

\* a miss that resolved a DOI to a PMC identifier and then fetched the full text
C33_ResolvedThenFetched ==
    /\ last_fetch.doc # <<>>
    /\ ~last_fetch.hit
    /\ ~Truthy(InputIds.pmcid)
    /\ last_fetch.calls = StepOrder
    /\ last_fetch.doc[1].pmc_xml # <<>>

\* the row has been logged and is not in a final status
Unsettled(k) ==
    /\ k <= Len(failed_searches)
    /\ failed_searches[k].status \notin {"rejected", "resolved", "needs_review"}

\* C34: with the jobs run again and again, every logged row eventually
\* reaches rejected, resolved or needs_review, the rows PubMed fails for
\* and the rows selected along with them included
C34_EveryRowSettles ==
    \A k \in 1..MaxLogs : [](Unsettled(k) => <>(~Unsettled(k)))

\* worker w has written the metadata of a document with full text for the
\* key and not yet its XML file
HalfWritten(w, key) ==
    /\ session[w].job = "fetch"
    /\ session[w].i = 2
    /\ KeyOf(session[w].added[1].inp) = key
    /\ session[w].added[1].got.doc.pmc_xml # <<>>

\* C35: a fetch that gets a cache hit while another fetch is writing the
\* entry with the full text it obtained returns that full text, never the
\* metadata alone
C35_HitNeverHalfWritten ==
    [][(last_fetch' # last_fetch /\ last_fetch'.hit) =>
          \A w \in Workers :
              HalfWritten(w, KeyOf(last_fetch'.inputs[1])) =>
                  last_fetch'.doc[1].pmc_xml # <<>>]_vars

\* the cell holds the name of an amino acid or its abbreviation, nothing else
NamesAcid(cell) == \E k \in 1..Len(AMINO_ALIASES) : Lower(cell) \in AMINO_ALIASES[k].aliases

\* C36: a row of a name cell that names an amino acid and a value cell
\* "2.4 g/100 g" or "2400 mg/100g" yields a fact of 2400 mg per 100 g; a row
\* whose value cell holds no number with a unit yields nothing
C36_BothSpellingsAccepted ==
    (last.op = "rows" /\ Len(last.row.cells) = 2 /\ NamesAcid(last.row.cells[1])) =>
        /\ last.row.cells[2] \in {"2.4 g/100 g", "2400 mg/100g"} =>
               \E k \in 1..Len(last.out) : last.out[k].amount_mg_per_100g = 2400
        /\ last.row.cells[2] \in {"12", "n.d."} => last.out = <<>>

\* how often the phrase stands in the text
Occurrences(text, phrase) ==
    Cardinality({i \in 1..Len(text) : Slice(text, i, i + Len(phrase) - 1) = phrase})

\* the occurrences of the phrases of the list that the second mention adds
AddedOccurrences(list) ==
    LET once == Lower(PhraseText(last.phrase, 1))
        twice == Lower(PhraseText(last.phrase, 2))
        Added(k) == Occurrences(twice, list[k]) - Occurrences(once, list[k])
        RECURSIVE Sum(_)
        Sum(k) == IF k = 0 THEN 0 ELSE Added(k) + Sum(k - 1)
    IN  Sum(Len(list))

\* C37: the raw score gains 1.2 for each occurrence of a measurement phrase
\* and loses 1.8 for each occurrence of a low-value phrase, so that a second
\* mention of a phrase is credited or penalized again
C37_EachOccurrenceCounts ==
    (last.op = "score") =>
        last.twice - last.once = 12 * AddedOccurrences(MEASUREMENT_KEYWORDS)
                                     - 18 * AddedOccurrences(LOW_VALUE_KEYWORDS)

\* the foods whose name is the normalized query text, letter case apart
ExactMatches(query) ==
    {i \in 1..Len(foods) : Lower(foods[i].name) = cached_normalize_query(query)}

\* the foods a step writes facts for
FoodsWritten ==
    {food_amino_acids'[k].food_id : k \in {j \in 1..Len(food_amino_acids') :
         j > Len(food_amino_acids) \/ food_amino_acids'[j] # food_amino_acids[j]}}

\* C38: a pass of the extraction loop writes facts only for the one food whose
\* name equals the normalized query text; when no food or more than one food
\* bears that name the pass raises no error, writes no fact and leaves the
\* row in needs_review
C38_ExactUniqueFoodOrReview ==
    [][\A w \in Workers :
          (/\ session[w].job = "extraction" /\ session'[w] # session[w]
           /\ session[w].i <= Len(session[w].rows)) =>
              LET r == session[w].rows[session[w].i]
                  exact == ExactMatches(failed_searches[r].query)
              IN  /\ FoodsWritten \subseteq exact
                  /\ Cardinality(exact) # 1 =>
                         /\ ~(last'.aborted /\ last'.op = "extraction")
                         /\ FoodsWritten = {}
                         /\ failed_searches'[r].status = "needs_review"]_vars

(***************************************************************************)
(* Extraction from two papers: the two rows of FuseSearches each have one   *)
(* candidate, a Crossref hit with or without the URL field.                *)
(***************************************************************************)
PaperOat == HitDoi
PaperOatBare == [HitDoi EXCEPT !.url = None]
PaperLysine ==
    [HitDoi EXCEPT !.title = "Lysine in milled oat bran (mg/100g)", !.doi = "10.1234/x2",
                   !.url = "https://doi.org/10.1234/x2"]
PaperLysineBare == [PaperLysine EXCEPT !.url = None]
PaperPool == {PaperOat, PaperOatBare, PaperLysine, PaperLysineBare}

PaperCandidates(first, second) ==
    enqueue_candidates_for_failed_search(<<>>, <<>>, 1, FuseQueries[1], <<first>>, MaxTopN)
        \o enqueue_candidates_for_failed_search(<<>>, <<>>, 2, FuseQueries[2], <<second>>,
                                                MaxTopN)

InitPapers ==
    /\ failed_searches = FuseSearches
    /\ \E first \in PaperPool, second \in PaperPool :
          paper_candidates = PaperCandidates(first, second)
    /\ sources = SeedDb.sources
    /\ foods = SeedDb.foods
    /\ food_amino_acids = SeedDb.food_amino_acids
    /\ cache = <<>>
    /\ session = [w \in Workers |-> Idle]
    /\ clock = 2
    /\ logged = <<>>
    /\ last = Quiet
    /\ fetched = <<>>
    /\ last_fetch = NoFetch

PapersRow == \E net \in FuseNetworks : ExtractionRow(1, net)

NextPapers ==
    \/ Extraction
    \/ PapersRow

SpecPapers == InitPapers /\ [][NextPapers]_vars

\* the facts a step inserts or changes
FactsTouched ==
    {k \in 1..Len(food_amino_acids') :
        k > Len(food_amino_acids) \/ food_amino_acids'[k] # food_amino_acids[k]}

\* C39: the facts a pass of the extraction loop writes reference a publication
\* source whose citation is the title of the candidate paper the pass read,
\* also when the candidate has no URL
C39_FactsCiteTheirPaper ==
    [][\A w \in Workers :
          (/\ session[w].job = "extraction" /\ session'[w] # session[w]
           /\ session[w].i <= Len(session[w].rows)) =>
              \A k \in FactsTouched :
                  \A c \in TopCandidates(paper_candidates, session[w].rows[session[w].i]) :
                      /\ sources'[food_amino_acids'[k].source_id].source_type = "publication"
                      /\ sources'[food_amino_acids'[k].source_id].citation_text
                             = paper_candidates[c].title]_vars

====
